---------------------------- MODULE Spec2Model ----------------------------
(* A model of the ray tracer's acceleration structure (bvh.rs, aabb.rs),   *)
(* its geometry (hittable.rs), its integrator and its pixel renderer       *)
(* (renderer.rs).                                                          *)
(*                                                                         *)
(* f64 values are modelled exactly: a value is a reduced fraction, one of  *)
(* the two infinities, or NaN, with the IEEE-754 rules for the operations  *)
(* on infinities and NaN.  Rounding is not modelled, and every zero is +0. *)
EXTENDS Integers, Sequences, FiniteSets, TLC

VARIABLES
    phase,      \* where the program is: "config", "built", "queried", "aborted"
                \* (the scene and its queries); "color", "returned" (one
                \* evaluation of color); "rendering", "done" (render_world);
                \* "call", "returned" (a function called on its own)
    scene,      \* the Vec<Shape> handed to BoundingVolumeHierarchy::new
    shapes,     \* BoundingVolumeHierarchy.shapes
    root,       \* BoundingVolumeHierarchy.root
    query,      \* the last (ray, t_min, t_max) given to Hittable::hit
    bvh_hit,    \* what BoundingVolumeHierarchy::hit returned for query
    list_hit,   \* what the shape list's hit returned for query
    background, \* the background colour
    use_bounding_volume,    \* whether world is the hierarchy or its shape list
    first_ray,  \* the ray of the outermost call of color
    first_depth,    \* the max_depth of the outermost call of color
    evaluation, \* the evaluation of color in progress
    camera,     \* the Camera given to render_world
    screen_width, screen_height, antialias_iterations, render_parallel,
    rngs,       \* the generator of each render worker, once it has one
    pixels,     \* what render returned for each index, once it has
    buffer,     \* the Vec<u8> render_world returns
    earlier,    \* the buffer an earlier run over the same arguments returned
    callee,     \* the function that is called on its own
    arguments,  \* what it is called with
    result      \* what it returned, once it has

bvh_vars == <<scene, shapes, root, query, bvh_hit, list_hit>>
color_vars == <<background, use_bounding_volume, first_ray, first_depth, evaluation>>
render_vars == <<camera, screen_width, screen_height, antialias_iterations,
                 render_parallel, rngs, pixels, buffer, earlier>>
call_vars == <<callee, arguments, result>>
vars == <<phase, bvh_vars, color_vars, render_vars, call_vars>>

(***************************************************************************)
(* Option<T>                                                               *)
(***************************************************************************)
None == <<>>
Some(x) == <<x>>
IsSome(o) == Len(o) = 1
IsNone(o) == Len(o) = 0
Unwrap(o) == o[1]

(***************************************************************************)
(* f64                                                                     *)
(***************************************************************************)
Abs(i) == IF i < 0 THEN -i ELSE i

RECURSIVE Gcd(_, _)
Gcd(a, b) == IF b = 0 THEN a ELSE Gcd(b, a % b)

NaN == [k |-> "nan", n |-> 0, d |-> 1]
PInf == [k |-> "pinf", n |-> 0, d |-> 1]
NInf == [k |-> "ninf", n |-> 0, d |-> 1]

\* n/d divided through by g, the greatest common divisor of n and d
Reduced(n, d, g) == [k |-> "fin", n |-> n \div g, d |-> d \div g]

\* the finite value n/d (d # 0), reduced, with a positive denominator
Fin(n, d) ==
    IF d < 0 THEN Reduced(-n, -d, Gcd(Abs(n), Abs(d)))
    ELSE Reduced(n, d, Gcd(Abs(n), Abs(d)))

Num(i) == [k |-> "fin", n |-> i, d |-> 1]
Zero == Num(0)
One == Num(1)

IsNaN(a) == a.k = "nan"
IsInf(a) == a.k \in {"pinf", "ninf"}
IsFinite(a) == a.k = "fin"
Sgn(a) ==
    CASE a.k = "pinf" -> 1
      [] a.k = "ninf" -> -1
      [] OTHER -> IF a.n > 0 THEN 1 ELSE IF a.n < 0 THEN -1 ELSE 0
InfOf(s) == IF s > 0 THEN PInf ELSE NInf

FNeg(a) ==
    CASE a.k = "nan" -> NaN
      [] a.k = "pinf" -> NInf
      [] a.k = "ninf" -> PInf
      [] OTHER -> [k |-> "fin", n |-> -a.n, d |-> a.d]

FAdd(a, b) ==
    IF IsNaN(a) \/ IsNaN(b) THEN NaN
    ELSE IF IsInf(a) /\ IsInf(b) THEN (IF a = b THEN a ELSE NaN)
    ELSE IF IsInf(a) THEN a
    ELSE IF IsInf(b) THEN b
    ELSE Fin(a.n * b.d + b.n * a.d, a.d * b.d)

FSub(a, b) == FAdd(a, FNeg(b))

FMul(a, b) ==
    IF IsNaN(a) \/ IsNaN(b) THEN NaN
    ELSE IF IsInf(a) \/ IsInf(b)
         THEN (IF Sgn(a) * Sgn(b) = 0 THEN NaN ELSE InfOf(Sgn(a) * Sgn(b)))
    ELSE Fin(a.n * b.n, a.d * b.d)

FDiv(a, b) ==
    IF IsNaN(a) \/ IsNaN(b) THEN NaN
    ELSE IF IsInf(a) /\ IsInf(b) THEN NaN
    ELSE IF IsInf(a) THEN InfOf(Sgn(a) * (IF Sgn(b) < 0 THEN -1 ELSE 1))
    ELSE IF IsInf(b) THEN Zero
    ELSE IF b.n = 0 THEN (IF a.n = 0 THEN NaN ELSE InfOf(Sgn(a)))
    ELSE Fin(a.n * b.d, a.d * b.n)

\* a < b; false when either is NaN
FLt(a, b) ==
    IF IsNaN(a) \/ IsNaN(b) THEN FALSE
    ELSE IF a = b THEN FALSE
    ELSE IF a.k = "ninf" \/ b.k = "pinf" THEN TRUE
    ELSE IF a.k = "pinf" \/ b.k = "ninf" THEN FALSE
    ELSE a.n * b.d < b.n * a.d

FGt(a, b) == FLt(b, a)
FEq(a, b) == ~IsNaN(a) /\ ~IsNaN(b) /\ a = b
FLe(a, b) == FLt(a, b) \/ FEq(a, b)
FGe(a, b) == FLe(b, a)

\* f64::min and f64::max return the other operand when one is NaN
FMin(a, b) == IF IsNaN(a) THEN b ELSE IF IsNaN(b) THEN a ELSE IF FLt(b, a) THEN b ELSE a
FMax(a, b) == IF IsNaN(a) THEN b ELSE IF IsNaN(b) THEN a ELSE IF FLt(a, b) THEN b ELSE a

\* the largest bound on the integer square roots the model takes
MaxRoot == 64

IsSquare(i) == \E r \in 0..MaxRoot : r * r = i
ISqrt(i) == CHOOSE r \in 0..MaxRoot : r * r = i

\* whether sqrt(a) is a value of the model: a is NaN, infinite, negative or
\* the square of a fraction
HasSqrt(a) == IsFinite(a) /\ a.n >= 0 => IsSquare(a.n) /\ IsSquare(a.d)

FSqrt(a) ==
    CASE a.k = "nan" -> NaN
      [] a.k = "pinf" -> PInf
      [] a.k = "ninf" -> NaN
      [] OTHER -> IF a.n < 0 THEN NaN ELSE Fin(ISqrt(a.n), ISqrt(a.d))

(***************************************************************************)
(* Vec3 and Ray                                                            *)
(***************************************************************************)
Vec3(x, y, z) == <<x, y, z>>
V(i, j, l) == <<Num(i), Num(j), Num(l)>>

\* Index<usize>: component 0, 1 or 2
At(v, i) == v[i + 1]

VAdd(a, b) == <<FAdd(a[1], b[1]), FAdd(a[2], b[2]), FAdd(a[3], b[3])>>
VSub(a, b) == <<FSub(a[1], b[1]), FSub(a[2], b[2]), FSub(a[3], b[3])>>
VScale(t, a) == <<FMul(t, a[1]), FMul(t, a[2]), FMul(t, a[3])>>
VDivS(a, t) == <<FDiv(a[1], t), FDiv(a[2], t), FDiv(a[3], t)>>
VNeg(a) == <<FNeg(a[1]), FNeg(a[2]), FNeg(a[3])>>
Dot(a, b) == FAdd(FAdd(FMul(a[1], b[1]), FMul(a[2], b[2])), FMul(a[3], b[3]))

Ray(o, dir, time) == [origin |-> o, direction |-> dir, time |-> time]
PointAt(ray, t) == VAdd(ray.origin, VScale(t, ray.direction))

(***************************************************************************)
(* SmallRng: a generator is a cyclic stream of values of [0, 1), chosen by *)
(* its seed, and a position in it                                          *)
(***************************************************************************)
SeedFrom(stream) == [stream |-> stream, pos |-> 0]
RandomDouble(rng) == rng.stream[rng.pos + 1]
NextRng(rng) == [rng EXCEPT !.pos = (rng.pos + 1) % Len(rng.stream)]

(***************************************************************************)
(* AABB (aabb.rs)                                                          *)
(***************************************************************************)
AABB(min, max) == [min |-> min, max |-> max]

\* (t0, t1) of one component without the swap
SlabUnswapped(min_component, max_component, origin_component, direction_component) ==
    <<FMul(FSub(min_component, origin_component), direction_component),
      FMul(FSub(max_component, origin_component), direction_component)>>

\* (t0, t1) of one component in AABB::hit, swapped when the direction is negative
Slab(min_component, max_component, origin_component, direction_component) ==
    IF FLt(direction_component, Zero)
    THEN <<FMul(FSub(max_component, origin_component), direction_component),
           FMul(FSub(min_component, origin_component), direction_component)>>
    ELSE <<FMul(FSub(min_component, origin_component), direction_component),
           FMul(FSub(max_component, origin_component), direction_component)>>

\* the slab loop of AABB::hit from component_index on, with its early return
RECURSIVE AABBHitFrom(_, _, _, _, _)
\* one iteration of the loop, slab being (t0, t1) of the component
AABBHitSlab(box, ray, component_index, slab, min_t, max_t) ==
    IF FLe(FMin(slab[2], max_t), FMax(slab[1], min_t)) THEN FALSE
    ELSE AABBHitFrom(box, ray, component_index + 1, FMax(slab[1], min_t),
                     FMin(slab[2], max_t))

AABBHitFrom(box, ray, component_index, min_t, max_t) ==
    IF component_index = 3 THEN TRUE
    ELSE AABBHitSlab(box, ray, component_index,
                     Slab(At(box.min, component_index), At(box.max, component_index),
                          At(ray.origin, component_index),
                          FDiv(One, At(ray.direction, component_index))),
                     min_t, max_t)

\* AABB::hit.  Its t_min and t_max are declared f32 while indexed_hit hands it
\* f64 values; the model keeps the values as they are handed over.
AABBHit(box, ray, t_min, t_max) == AABBHitFrom(box, ray, 0, t_min, t_max)

\* surrounding_box keeping the corners of self
SurroundingBoxOfSelf(self, other) == AABB(self.min, self.max)

SurroundingBox(self, other) ==
    LET small == <<FMin(self.min[1], other.min[1]),
                   FMin(self.min[2], other.min[2]),
                   FMin(self.min[3], other.min[3])>>
        big == <<FMax(self.max[1], other.max[1]),
                 FMax(self.max[2], other.max[2]),
                 FMax(self.max[3], other.max[3])>>
    IN AABB(small, big)

(***************************************************************************)
(* Textures and materials (texture.rs, material.rs)                        *)
(***************************************************************************)
ConstantTexture(r, g, b) == [kind |-> "Constant", color |-> <<r, g, b>>]
CheckerTexture(even, odd) == [kind |-> "Checker", even |-> even, odd |-> odd]

Lambertian(albedo) == [kind |-> "Lambertian", albedo |-> albedo]
\* Metal::new
Metal(albedo, fuzziness) ==
    [kind |-> "Metal", albedo |-> albedo, fuzziness |-> FMin(fuzziness, One)]
\* Material::metal
MaterialMetal(e0, e1, e2, fuzziness) == Metal(Vec3(e0, e1, e2), fuzziness)
Dielectric(ref_idx) == [kind |-> "Dielectric", ref_idx |-> ref_idx]
DiffuseLight(texture) == [kind |-> "DiffuseLight", texture |-> texture]

(***************************************************************************)
(* Shapes (hittable.rs)                                                    *)
(***************************************************************************)
\* the padding of a rectangle's box along its normal is 1/PadDen = 0.0001
PadDen == 10000
Pad == Fin(1, PadDen)

Sphere(center, radius, material) ==
    [kind |-> "Sphere", center |-> center, radius |-> radius, material |-> material]

\* a0..a1 and b0..b1 are the extents on the rectangle's two free axes
\* (x, y for Xy; x, z for Xz; y, z for Yz) and k its plane
Rect(kind, a0, a1, b0, b1, k, material) ==
    [kind |-> kind, a0 |-> a0, a1 |-> a1, b0 |-> b0, b1 |-> b1, k |-> k,
     material |-> material]
XyRect(x0, x1, y0, y1, k, material) == Rect("XyRect", x0, x1, y0, y1, k, material)
XzRect(x0, x1, z0, z1, k, material) == Rect("XzRect", x0, x1, z0, z1, k, material)
YzRect(y0, y1, z0, z1, k, material) == Rect("YzRect", y0, y1, z0, z1, k, material)

Cube(p0, p1, material) ==
    [kind |-> "Cube", min |-> p0, max |-> p1,
     sides |-> << XyRect(p0[1], p1[1], p0[2], p1[2], p0[3], material),
                  XyRect(p0[1], p1[1], p0[2], p1[2], p1[3], material),
                  XzRect(p0[1], p1[1], p0[3], p1[3], p1[2], material),
                  XzRect(p0[1], p1[1], p0[3], p1[3], p0[2], material),
                  YzRect(p0[2], p1[2], p0[3], p1[3], p1[1], material),
                  YzRect(p0[2], p1[2], p0[3], p1[3], p0[1], material) >>]

MovingSphere(center_initial, center_final, radius, material, time_start, time_end) ==
    [kind |-> "MovingSphere", object |-> Sphere(center_initial, radius, material),
     center_final |-> center_final, time_start |-> time_start, time_end |-> time_end]

\* Moving::center
MovingCenter(self, time) ==
    LET center_initial == self.object.center
        elapsed_time == FSub(time, self.time_start)
        movement_time == FSub(self.time_end, self.time_start)
        distance == VSub(self.center_final, center_initial)
    IN VAdd(center_initial, VScale(FDiv(elapsed_time, movement_time), distance))

\* the axis of a rectangle's normal and its two free axes, as components
NormalAxis(kind) == CASE kind = "XyRect" -> 2 [] kind = "XzRect" -> 1 [] kind = "YzRect" -> 0
FreeAxisA(kind) == CASE kind = "XyRect" -> 0 [] kind = "XzRect" -> 0 [] kind = "YzRect" -> 1
FreeAxisB(kind) == CASE kind = "XyRect" -> 1 [] kind = "XzRect" -> 2 [] kind = "YzRect" -> 2

\* Vec3::new with value n on the normal axis and a, b on the free axes
RectVec(kind, a, b, n) ==
    CASE kind = "XyRect" -> <<a, b, n>>
      [] kind = "XzRect" -> <<a, n, b>>
      [] kind = "YzRect" -> <<n, a, b>>

SphereBox(center, radius) ==
    AABB(VSub(center, <<radius, radius, radius>>), VAdd(center, <<radius, radius, radius>>))

RectBoundingBox(self) ==
    AABB(RectVec(self.kind, self.a0, self.b0, FSub(self.k, Pad)),
         RectVec(self.kind, self.a1, self.b1, FAdd(self.k, Pad)))

\* the fold of surrounding_box over boxes[i..], started from aabb
RECURSIVE FoldBoxes(_, _, _)
FoldBoxes(aabb, boxes, i) ==
    IF i > Len(boxes) THEN Some(aabb)
    ELSE IF IsNone(boxes[i]) THEN None
    ELSE FoldBoxes(SurroundingBox(aabb, Unwrap(boxes[i])), boxes, i + 1)

\* first()?-then-fold, as Cube::bounding_box and the list's bounding_box do
BoxOfBoxes(boxes) ==
    IF Len(boxes) = 0 \/ IsNone(boxes[1]) THEN None
    ELSE FoldBoxes(Unwrap(boxes[1]), boxes, 2)

CubeBoundingBox(self) ==
    BoxOfBoxes([i \in 1..6 |-> Some(RectBoundingBox(self.sides[i]))])

\* the box of a sphere that moves from center_initial to center_final
MovingBox(center_initial, center_final, radius) ==
    IF \A i \in 1..3 : FEq(center_initial[i], center_final[i])
    THEN SphereBox(center_initial, radius)
    ELSE SurroundingBox(SphereBox(center_initial, radius), SphereBox(center_final, radius))

MovingSphereBoundingBox(self, time_start, time_end) ==
    MovingBox(MovingCenter(self, time_start), MovingCenter(self, time_end),
              self.object.radius)

\* Shape::bounding_box: Option<AABB>
BoundingBox(shape, time_start, time_end) ==
    CASE shape.kind = "Sphere" -> Some(SphereBox(shape.center, shape.radius))
      [] shape.kind \in {"XyRect", "XzRect", "YzRect"} -> Some(RectBoundingBox(shape))
      [] shape.kind = "Cube" -> CubeBoundingBox(shape)
      [] shape.kind = "MovingSphere" ->
            Some(MovingSphereBoundingBox(shape, time_start, time_end))

\* the free function bounding_box over a slice of shapes
ListBoundingBox(list, time_start, time_end) ==
    BoxOfBoxes([i \in 1..Len(list) |-> BoundingBox(list[i], time_start, time_end)])

(***************************************************************************)
(* Hit                                                                     *)
(***************************************************************************)
\* the Hit of Hit::new with the outward normal stored as it is
HitFacingOutward(t, p, front_facing, outward_normal, material) ==
    [t |-> t, p |-> p, front_facing |-> front_facing, normal |-> outward_normal,
     material |-> material]

\* the Hit of Hit::new, once front_facing is known
HitFacing(t, p, front_facing, outward_normal, material) ==
    [t |-> t, p |-> p, front_facing |-> front_facing,
     normal |-> IF front_facing THEN outward_normal ELSE VNeg(outward_normal),
     material |-> material]

HitNew(t, p, ray, outward_normal, material) ==
    HitFacing(t, p, FLt(Dot(ray.direction, outward_normal), Zero), outward_normal,
              material)

\* the discriminant Sphere::hit takes the square root of, b * b - a * c, from oc
DiscriminantOf(oc, radius, ray) ==
    FSub(FMul(Dot(oc, ray.direction), Dot(oc, ray.direction)),
         FMul(Dot(ray.direction, ray.direction),
              FSub(Dot(oc, oc), FMul(radius, radius))))

SphereDiscriminant(center, radius, ray) ==
    DiscriminantOf(VSub(ray.origin, center), radius, ray)

\* the Hit of Sphere::hit at the root t, where the ray is at p
SphereHitPoint(center, radius, material, ray, t, p) ==
    Some(HitNew(t, p, ray, VDivS(VSub(p, center), radius), material))

\* the two roots, the farther tried first
SphereHitRootsFarFirst(center, radius, material, ray, t_min, t_max, f, g) ==
    IF FLt(g, t_max) /\ FGt(g, t_min)
    THEN SphereHitPoint(center, radius, material, ray, g, PointAt(ray, g))
    ELSE IF FLt(f, t_max) /\ FGt(f, t_min)
    THEN SphereHitPoint(center, radius, material, ray, f, PointAt(ray, f))
    ELSE None

\* the two roots of Sphere::hit, the nearer first
SphereHitRoots(center, radius, material, ray, t_min, t_max, f, g) ==
    IF FLt(f, t_max) /\ FGt(f, t_min)
    THEN SphereHitPoint(center, radius, material, ray, f, PointAt(ray, f))
    ELSE IF FLt(g, t_max) /\ FGt(g, t_min)
    THEN SphereHitPoint(center, radius, material, ray, g, PointAt(ray, g))
    ELSE None

\* Sphere::hit with a, b and the discriminant worked out
SphereHitWith(center, radius, material, ray, t_min, t_max, a, b, discriminant) ==
    IF FLt(discriminant, Zero) THEN None
    ELSE SphereHitRoots(center, radius, material, ray, t_min, t_max,
                        FDiv(FSub(FNeg(b), FSqrt(discriminant)), a),
                        FDiv(FAdd(FNeg(b), FSqrt(discriminant)), a))

\* Sphere::hit, and Moving<Sphere>::hit with the centre at the ray's time
SphereHitAt(center, radius, material, ray, t_min, t_max) ==
    SphereHitWith(center, radius, material, ray, t_min, t_max,
                  Dot(ray.direction, ray.direction),
                  Dot(VSub(ray.origin, center), ray.direction),
                  SphereDiscriminant(center, radius, ray))

\* a rectangle's hit at t, where the ray crosses its plane at (a, b)
RectHitInside(self, ray, t, a, b) ==
    IF FLt(a, self.a0) \/ FGt(a, self.a1) \/ FLt(b, self.b0) \/ FGt(b, self.b1)
    THEN None
    ELSE Some(HitNew(t, PointAt(ray, t), ray, RectVec(self.kind, Zero, Zero, One),
                     self.material))

\* a rectangle's hit, once the t of its plane is known
RectHitAt(self, ray, t_min, t_max, t) ==
    IF FLt(t, t_min) \/ FGt(t, t_max) THEN None
    ELSE RectHitInside(self, ray, t,
                       FAdd(At(ray.origin, FreeAxisA(self.kind)),
                            FMul(t, At(ray.direction, FreeAxisA(self.kind)))),
                       FAdd(At(ray.origin, FreeAxisB(self.kind)),
                            FMul(t, At(ray.direction, FreeAxisB(self.kind)))))

\* XyRect::hit, XzRect::hit, YzRect::hit
RectHit(self, ray, t_min, t_max) ==
    RectHitAt(self, ray, t_min, t_max,
              FDiv(FSub(self.k, At(ray.origin, NormalAxis(self.kind))),
                   At(ray.direction, NormalAxis(self.kind))))

\* the loop of Cube::hit over sides[i..]
RECURSIVE CubeHitFrom(_, _, _, _, _, _)
\* one iteration of the loop, h being the hit of side i
CubeHitSide(self, ray, t_min, i, min_distance, nearest_hit, h) ==
    IF IsSome(h) THEN CubeHitFrom(self, ray, t_min, i + 1, Unwrap(h).t, h)
    ELSE CubeHitFrom(self, ray, t_min, i + 1, min_distance, nearest_hit)

CubeHitFrom(self, ray, t_min, i, min_distance, nearest_hit) ==
    IF i > 6 THEN nearest_hit
    ELSE CubeHitSide(self, ray, t_min, i, min_distance, nearest_hit,
                     RectHit(self.sides[i], ray, t_min, min_distance))

\* Shape::hit: Option<Hit>
ShapeHit(shape, ray, t_min, t_max) ==
    CASE shape.kind = "Sphere" ->
            SphereHitAt(shape.center, shape.radius, shape.material, ray, t_min, t_max)
      [] shape.kind \in {"XyRect", "XzRect", "YzRect"} -> RectHit(shape, ray, t_min, t_max)
      [] shape.kind = "Cube" -> CubeHitFrom(shape, ray, t_min, 1, t_max, None)
      [] shape.kind = "MovingSphere" ->
            SphereHitAt(MovingCenter(shape, ray.time), shape.object.radius,
                        shape.object.material, ray, t_min, t_max)

\* the loop of the free function hit over shapes[i..]; a found hit is kept
\* with the position of its shape in the list
RECURSIVE ListHitFrom(_, _, _, _, _, _)
\* one iteration of the loop, h being the hit of shapes[i]
ListHitShape(list, ray, t_min, i, min_distance, nearest_hit, h) ==
    IF IsSome(h)
    THEN ListHitFrom(list, ray, t_min, i + 1, Unwrap(h).t,
                     Some([index |-> i - 1, hit |-> Unwrap(h)]))
    ELSE ListHitFrom(list, ray, t_min, i + 1, min_distance, nearest_hit)

ListHitFrom(list, ray, t_min, i, min_distance, nearest_hit) ==
    IF i > Len(list) THEN nearest_hit
    ELSE ListHitShape(list, ray, t_min, i, min_distance, nearest_hit,
                      ShapeHit(list[i], ray, t_min, min_distance))

ListHit(list, ray, t_min, t_max) == ListHitFrom(list, ray, t_min, 1, t_max, None)

(***************************************************************************)
(* BVH (bvh.rs)                                                            *)
(***************************************************************************)
Leaf(index) == [kind |-> "Leaf", index |-> index]
Node(bounds, left, right) == [kind |-> "Node", bounds |-> bounds, left |-> left, right |-> right]

\* (3.0 * rng.random_double()) as usize
AxisOf(random_double) == (3 * random_double.n) \div random_double.d

\* the comparator of build_tree's sort_by returning Ordering::Less
IsLess(a, b, axis, time_initial, time_final) ==
    LET left == Unwrap(BoundingBox(a, time_initial, time_final))
        right == Unwrap(BoundingBox(b, time_initial, time_final))
    IN FLt(FSub(At(left.min, axis), At(right.min, axis)), Zero)

\* slice::sort_by is a stable sort that asks its comparator only whether the
\* answer is Less: x goes before the elements it is less than, after the rest
RECURSIVE SortInsert(_, _, _, _, _)
\* x is written over the elements it is less than
SortInsertOver(sorted, x, axis, time_initial, time_final) ==
    IF Len(sorted) = 0 THEN <<x>>
    ELSE IF IsLess(x, sorted[Len(sorted)], axis, time_initial, time_final)
         THEN Append(SortInsert(SubSeq(sorted, 1, Len(sorted) - 1), x, axis,
                                time_initial, time_final),
                     x)
         ELSE Append(sorted, x)

SortInsert(sorted, x, axis, time_initial, time_final) ==
    IF Len(sorted) = 0 THEN <<x>>
    ELSE IF IsLess(x, sorted[Len(sorted)], axis, time_initial, time_final)
         THEN Append(SortInsert(SubSeq(sorted, 1, Len(sorted) - 1), x, axis,
                                time_initial, time_final),
                     sorted[Len(sorted)])
         ELSE Append(sorted, x)

RECURSIVE SortBy(_, _, _, _)
SortBy(list, axis, time_initial, time_final) ==
    IF Len(list) <= 1 THEN list
    ELSE SortInsert(SortBy(SubSeq(list, 1, Len(list) - 1), axis, time_initial, time_final),
                    list[Len(list)], axis, time_initial, time_final)

\* the number of calls of build_tree on n >= 1 shapes: one random draw each
RECURSIVE BuildCalls(_)
BuildCalls(n) ==
    IF n <= 2 THEN 1 ELSE 1 + BuildCalls(n \div 2) + BuildCalls(n - n \div 2)

\* whether build_tree on n shapes calls itself without end: its two calls
\* are on halving_point and on n - halving_point shapes, and a call on as
\* many shapes as its caller has repeats it
RECURSIVE BuildOverflows(_)
BuildOverflows(n) ==
    IF n = 1 \/ n = 2 THEN FALSE
    ELSE IF n \div 2 = n \/ n - n \div 2 = n THEN TRUE
    ELSE BuildOverflows(n \div 2) \/ BuildOverflows(n - n \div 2)

\* the bounds of build_tree's 2-shape node, from slice positions 0 and 1
PairBounds(list, time_initial, time_final) ==
    SurroundingBox(Unwrap(BoundingBox(list[1], time_initial, time_final)),
                   Unwrap(BoundingBox(list[2], time_initial, time_final)))

\* a 2-shape node that names the same leaf twice
PairNodeSameLeaf(bounds, offset) ==
    Node(bounds, Some(Leaf(offset + 1)), Some(Leaf(offset + 1)))

\* the 2-shape node of build_tree
PairNode(bounds, offset) ==
    LET left_leaf == Leaf(offset)
        right_leaf == Leaf(offset + 1)
    IN Node(bounds, Some(right_leaf), Some(left_leaf))

\* bounds taken from slice positions 0 and 1 alone, whatever the slice's length
SliceBoundsFirstPair(list, time_initial, time_final) ==
    PairBounds(list, time_initial, time_final)

\* the bounds of build_tree's node over more than two shapes: the box of the
\* slice after both halves were built
SliceBounds(list, time_initial, time_final) ==
    Unwrap(ListBoundingBox(list, time_initial, time_final))

\* BVHMember::build_tree on the slice list (of n >= 1 shapes, at offset in the
\* whole list).  Returns the member, the slice as the call leaves it and the
\* generator as the call leaves it.
RECURSIVE BuildTree(_, _, _, _, _, _)
\* the node over the two halves l and r, as their calls returned them
BuildNode(l, r, time_initial, time_final) ==
    [member |-> Node(SliceBounds(l.shapes \o r.shapes, time_initial, time_final),
                     Some(l.member), Some(r.member)),
     shapes |-> l.shapes \o r.shapes, rng |-> r.rng]

\* the call on the right half, after the call on the left half returned l
BuildRight(l, sorted, offset, n, halving_point, time_initial, time_final) ==
    BuildNode(l,
              BuildTree(l.rng, SubSeq(sorted, halving_point + 1, Len(sorted)),
                        offset + halving_point, n - halving_point,
                        time_initial, time_final),
              time_initial, time_final)

\* build_tree after its sort_by
BuildSorted(rng, sorted, offset, n, time_initial, time_final) ==
    IF n = 1 THEN [member |-> Leaf(offset), shapes |-> sorted, rng |-> rng]
    ELSE IF n = 2
    THEN [member |-> PairNode(PairBounds(sorted, time_initial, time_final), offset),
          shapes |-> sorted, rng |-> rng]
    ELSE BuildRight(BuildTree(rng, SubSeq(sorted, 1, n \div 2), offset, n \div 2,
                              time_initial, time_final),
                    sorted, offset, n, n \div 2, time_initial, time_final)

BuildTree(rng, list, offset, n, time_initial, time_final) ==
    BuildSorted(NextRng(rng),
                SortBy(list, AxisOf(RandomDouble(rng)), time_initial, time_final),
                offset, n, time_initial, time_final)

\* the result of left_hit against right_hit in indexed_hit
NearerHit(left_hit, right_hit) ==
    IF IsSome(left_hit) /\ IsSome(right_hit)
    THEN (IF FLt(Unwrap(left_hit).hit.t, Unwrap(right_hit).hit.t)
          THEN left_hit ELSE right_hit)
    ELSE IF IsSome(left_hit) THEN left_hit
    ELSE right_hit

\* the hit of the shape of Leaf(index), kept with the index
LeafHit(index, h) ==
    IF IsSome(h) THEN Some([index |-> index, hit |-> Unwrap(h)]) ELSE None

\* BVHMember::indexed_hit; a hit is kept with the index of its leaf
RECURSIVE IndexedHit(_, _, _, _, _)
IndexedHit(self, list, ray, t_min, t_max) ==
    IF self.kind = "Leaf"
    THEN LeafHit(self.index, ShapeHit(list[self.index + 1], ray, t_min, t_max))
    ELSE IF ~AABBHit(self.bounds, ray, t_min, t_max) THEN None
    ELSE NearerHit(IF IsSome(self.left)
                   THEN IndexedHit(Unwrap(self.left), list, ray, t_min, t_max)
                   ELSE None,
                   IF IsSome(self.right)
                   THEN IndexedHit(Unwrap(self.right), list, ray, t_min, t_max)
                   ELSE None)

\* BVHMember::level_order: the members it returns references to, in the
\* order of the vector
RECURSIVE LevelOrder(_)
\* level.push(node) for a child that is there
LevelPushed(child) == IF IsSome(child) THEN <<Unwrap(child)>> ELSE <<>>

\* level.extend(&nodes[1..]), nodes being the level_order of the child
LevelExtended(child) ==
    IF IsSome(child) THEN Tail(LevelOrder(Unwrap(child))) ELSE <<>>

LevelOrder(self) ==
    IF self.kind = "Node"
    THEN <<self>> \o LevelPushed(self.left) \o LevelPushed(self.right)
                  \o LevelExtended(self.left) \o LevelExtended(self.right)
    ELSE <<self>>

\* whether every square root the hit of a ray on a list takes is a value of
\* the model
Representable(list, ray) ==
    \A i \in 1..Len(list) :
        LET shape == list[i]
        IN CASE shape.kind = "Sphere" ->
                    HasSqrt(SphereDiscriminant(shape.center, shape.radius, ray))
             [] shape.kind = "MovingSphere" ->
                    HasSqrt(SphereDiscriminant(MovingCenter(shape, ray.time),
                                               shape.object.radius, ray))
             [] OTHER -> TRUE

(***************************************************************************)
(* Scattering (material.rs)                                                *)
(***************************************************************************)
FAbs(a) == IF Sgn(a) < 0 THEN FNeg(a) ELSE a

\* f64::powi(a, 5)
Powi5(a) == FMul(FMul(FMul(a, a), FMul(a, a)), a)

VMul(a, b) == <<FMul(a[1], b[1]), FMul(a[2], b[2]), FMul(a[3], b[3])>>
SquareLength(v) == FAdd(FAdd(FMul(v[1], v[1]), FMul(v[2], v[2])), FMul(v[3], v[3]))
Length(v) == FSqrt(SquareLength(v))

\* Vec3::new(self.x() * k, self.y() * k, self.z() * k)
VTimes(v, k) == <<FMul(v[1], k), FMul(v[2], k), FMul(v[3], k)>>

Unit(v) == VTimes(v, FDiv(One, Length(v)))

\* bounds on pi, and the largest number of half turns the model counts in
\* the argument of a sine
PiBelow == Fin(333, 106)
PiAbove == Fin(355, 113)
MaxHalfTurns == 8

\* whether y lies within the half turn that follows k half turns
InHalfTurn(k, y) == FLt(FMul(Num(k), PiAbove), y) /\ FLt(y, FMul(Num(k + 1), PiBelow))

\* whether the sign of f64::sin(y) is a value of the model
HasSinSign(y) ==
    IsFinite(y) => y = Zero \/ \E k \in 0..MaxHalfTurns : InHalfTurn(k, FAbs(y))

\* the sign of f64::sin(y): -1, 0 or 1, and 0 where sin(y) is NaN
SinSign(y) ==
    IF ~IsFinite(y) \/ y = Zero THEN 0
    ELSE IF (CHOOSE k \in 0..MaxHalfTurns : InHalfTurn(k, FAbs(y))) % 2 = 0 THEN Sgn(y)
    ELSE -Sgn(y)

\* the sign of sines in CheckerTexture::value
CheckerSines(p) ==
    SinSign(FMul(Num(10), p[1])) * SinSign(FMul(Num(10), p[2]))
    * SinSign(FMul(Num(10), p[3]))

\* Texture::value of a constant texture and of a checker texture; neither
\* reads u and v
RECURSIVE TextureValue(_, _)
TextureValue(texture, p) ==
    IF texture.kind = "Constant" THEN texture.color
    ELSE IF CheckerSines(p) < 0 THEN TextureValue(texture.odd, p)
    ELSE TextureValue(texture.even, p)

\* random_in_unit_sphere: the point it returns and the generator it leaves
RECURSIVE RandomInUnitSphere(_)
\* gen_p
GenP(rng) ==
    VSub(VScale(Num(2), <<RandomDouble(rng), RandomDouble(NextRng(rng)),
                          RandomDouble(NextRng(NextRng(rng)))>>),
         V(1, 1, 1))

\* the loop of random_in_unit_sphere on the point p; rng is the generator
\* after p was drawn
UnitSphereLoop(p, rng) ==
    IF FGe(SquareLength(p), One) THEN RandomInUnitSphere(rng)
    ELSE [p |-> p, rng |-> rng]

RandomInUnitSphere(rng) == UnitSphereLoop(GenP(rng), NextRng(NextRng(NextRng(rng))))

Reflect(v, n) == VSub(v, VScale(FMul(Num(2), Dot(v, n)), n))

\* perpendicular + parallel of refract
RefractSum(perpendicular, n) ==
    VAdd(perpendicular,
         VScale(FNeg(FSqrt(FAbs(FSub(One, SquareLength(perpendicular))))), n))

\* perpendicular of refract
Perpendicular(uv, n, etai_over_etat) ==
    VScale(etai_over_etat, VAdd(uv, VScale(FMin(Dot(VNeg(uv), n), One), n)))

Refract(uv, n, etai_over_etat) == RefractSum(Perpendicular(uv, n, etai_over_etat), n)

\* schlick once r0 is squared
SchlickOf(r0, cosine) == FAdd(r0, FMul(FSub(One, r0), Powi5(FSub(One, cosine))))

Schlick(cosine, ref_idx) ==
    SchlickOf(FMul(FDiv(FSub(One, ref_idx), FAdd(One, ref_idx)),
                   FDiv(FSub(One, ref_idx), FAdd(One, ref_idx))),
              cosine)

ScatterResponse(scattered, attenuation) ==
    [scattered |-> scattered, attenuation |-> attenuation]

\* a material that emits whether or not it scatters
EmitAlways(material, p) ==
    IF material.kind = "DiffuseLight" THEN TextureValue(material.texture, p)
    ELSE <<One, One, One>>

\* a light that emits what its texture holds at the origin
EmitAtOrigin(material, p) ==
    IF material.kind = "DiffuseLight" THEN TextureValue(material.texture, V(0, 0, 0))
    ELSE <<Zero, Zero, Zero>>

\* Material::emit: DiffuseLight's texture, and the trait's default for the rest
Emit(material, p) ==
    IF material.kind = "DiffuseLight" THEN TextureValue(material.texture, p)
    ELSE <<Zero, Zero, Zero>>

\* Lambertian::scatter with the point random_in_unit_sphere returned
LambertianToward(self, sample, ray, hit) ==
    [response |->
        Some(ScatterResponse(Ray(hit.p,
                                 VSub(VAdd(VAdd(hit.p, hit.normal), sample.p), hit.p),
                                 ray.time),
                             TextureValue(self.albedo, hit.p))),
     rng |-> sample.rng]

LambertianScatter(self, rng, ray, hit) ==
    LambertianToward(self, RandomInUnitSphere(rng), ray, hit)

\* Metal::scatter that also lets through a ray along the surface
MetalAlongSurface(self, scattered, rng, hit) ==
    [response |-> IF FGe(Dot(scattered.direction, hit.normal), Zero)
                  THEN Some(ScatterResponse(scattered, self.albedo))
                  ELSE None,
     rng |-> rng]

\* Metal::scatter once the scattered ray is known
MetalAlong(self, scattered, rng, hit) ==
    [response |-> IF FGt(Dot(scattered.direction, hit.normal), Zero)
                  THEN Some(ScatterResponse(scattered, self.albedo))
                  ELSE None,
     rng |-> rng]

\* Metal::scatter adding the point as it is, whatever the fuzziness
MetalTowardUnscaled(self, sample, ray, hit) ==
    MetalAlong(self,
               Ray(hit.p, VAdd(Reflect(Unit(ray.direction), hit.normal), sample.p),
                   ray.time),
               sample.rng, hit)

\* Metal::scatter with the point random_in_unit_sphere returned
MetalToward(self, sample, ray, hit) ==
    MetalAlong(self,
               Ray(hit.p,
                   VAdd(Reflect(Unit(ray.direction), hit.normal),
                        VScale(self.fuzziness, sample.p)),
                   ray.time),
               sample.rng, hit)

MetalScatter(self, rng, ray, hit) == MetalToward(self, RandomInUnitSphere(rng), ray, hit)

\* cos_theta of Dielectric::scatter
CosTheta(unit_direction, normal) == FMin(Dot(VNeg(unit_direction), normal), One)

\* sin_theta of Dielectric::scatter
SinTheta(cos_theta) == FSqrt(FSub(One, FMul(cos_theta, cos_theta)))

\* sin_theta and cannot_refract of Dielectric::scatter
AnglesFrom(refraction_ratio, unit_direction, cos_theta) ==
    [refraction_ratio |-> refraction_ratio, unit_direction |-> unit_direction,
     cos_theta |-> cos_theta, sin_theta |-> SinTheta(cos_theta),
     cannot_refract |-> FGt(FMul(refraction_ratio, SinTheta(cos_theta)), One)]

AnglesAlong(refraction_ratio, unit_direction, normal) ==
    AnglesFrom(refraction_ratio, unit_direction, CosTheta(unit_direction, normal))

\* refraction_ratio, unit_direction, cos_theta, sin_theta and cannot_refract
\* of Dielectric::scatter
DielectricAngles(self, ray, hit) ==
    AnglesAlong(IF hit.front_facing THEN FDiv(One, self.ref_idx) ELSE self.ref_idx,
                Unit(ray.direction), hit.normal)

\* whether Dielectric::scatter reflects, were it left to the draw alone
DielectricReflectsByChance(angles, rng) ==
    FGt(Schlick(angles.cos_theta, angles.refraction_ratio), RandomDouble(rng))

\* whether Dielectric::scatter reflects; the generator is read only when the
\* ray can refract
DielectricReflects(angles, rng) ==
    \/ angles.cannot_refract
    \/ FGt(Schlick(angles.cos_theta, angles.refraction_ratio), RandomDouble(rng))

\* Dielectric::scatter with its angles worked out
DielectricWith(angles, rng, ray, hit) ==
    [response |->
        Some(ScatterResponse(
                Ray(hit.p,
                    IF DielectricReflects(angles, rng)
                    THEN Reflect(angles.unit_direction, hit.normal)
                    ELSE Refract(angles.unit_direction, hit.normal,
                                 angles.refraction_ratio),
                    ray.time),
                <<One, One, One>>)),
     rng |-> IF angles.cannot_refract THEN rng ELSE NextRng(rng)]

DielectricScatter(self, rng, ray, hit) ==
    DielectricWith(DielectricAngles(self, ray, hit), rng, ray, hit)

\* Material::scatter: the response and the generator it leaves
Scatter(material, rng, ray, hit) ==
    CASE material.kind = "Lambertian" -> LambertianScatter(material, rng, ray, hit)
      [] material.kind = "Metal" -> MetalScatter(material, rng, ray, hit)
      [] material.kind = "Dielectric" -> DielectricScatter(material, rng, ray, hit)
      [] material.kind = "DiffuseLight" -> [response |-> None, rng |-> rng]

\* whether the square root refract takes is a value of the model
RefractRepresentable(angles, rng, normal) ==
    \/ DielectricReflects(angles, rng)
    \/ HasSqrt(FAbs(FSub(One, SquareLength(Perpendicular(angles.unit_direction, normal,
                                                         angles.refraction_ratio)))))

\* whether the square roots Dielectric::scatter takes after unit() are values
\* of the model
AnglesRepresentable(self, rng, ray, hit, cos_theta) ==
    /\ HasSqrt(FSub(One, FMul(cos_theta, cos_theta)))
    /\ RefractRepresentable(DielectricAngles(self, ray, hit), rng, hit.normal)

\* whether every square root Material::scatter takes is a value of the model
ScatterRepresentable(material, rng, ray, hit) ==
    CASE material.kind = "Metal" -> HasSqrt(SquareLength(ray.direction))
      [] material.kind = "Dielectric" ->
            /\ HasSqrt(SquareLength(ray.direction))
            /\ AnglesRepresentable(material, rng, ray, hit,
                                   CosTheta(Unit(ray.direction), hit.normal))
      [] OTHER -> TRUE

(***************************************************************************)
(* color (renderer.rs)                                                     *)
(*                                                                         *)
(* An evaluation of color is the call that is running (its ray and its     *)
(* max_depth), the callers that wait for it (each holds the emitted and    *)
(* attenuation values of its hit), the value that the last call returned,  *)
(* the generator, and the number of world.hit queries made so far.         *)
(***************************************************************************)
\* the number of values of max_depth's type, u8
U8Values == 256
U8Sub(a, b) == (a - b + U8Values) % U8Values

\* the Hit of a hit that was kept with the index of its shape
HitOf(found) == IF IsSome(found) THEN Some(Unwrap(found).hit) ELSE None

\* world.hit for the world render_world selects
HittableHit(use_bvh, list, member, ray, t_min, t_max) ==
    HitOf(IF use_bvh THEN IndexedHit(member, list, ray, t_min, t_max)
          ELSE ListHit(list, ray, t_min, t_max))

\* world.hit(ray, 0.001, INFINITY)
ColorHit(use_bvh, list, member, ray) ==
    HittableHit(use_bvh, list, member, ray, Fin(1, 1000), PInf)

ColorCall(rng, ray, max_depth) ==
    [call |-> Some([ray |-> ray, max_depth |-> max_depth]), stack |-> <<>>,
     ret |-> None, rng |-> rng, queries |-> 0]

Returned(eval) == IsNone(eval.call) /\ eval.stack = <<>>

\* the recursive call's value, handed on without the decrement of max_depth
RecursiveCallSameDepth(scattered, max_depth) ==
    Some([ray |-> scattered, max_depth |-> max_depth])

\* color(rng, &scatter.scattered(), background, world, max_depth - 1)
RecursiveCall(scattered, max_depth) ==
    Some([ray |-> scattered, max_depth |-> U8Sub(max_depth, 1)])

\* a test of max_depth that never ends the recursion
DepthExhaustedNever(max_depth) == FALSE

\* if max_depth == 0
DepthExhausted(max_depth) == max_depth = 0

\* color after world.hit returned Some(hit): emitted and scatter are what
\* the hit's material returned
ColorScatter(eval, call, emitted, scatter) ==
    IF IsSome(scatter.response)
    THEN [eval EXCEPT
            !.queries = @ + 1,
            !.call = RecursiveCall(Unwrap(scatter.response).scattered, call.max_depth),
            !.stack = Append(@, [emitted |-> emitted,
                                 attenuation |-> Unwrap(scatter.response).attenuation]),
            !.ret = None,
            !.rng = scatter.rng]
    ELSE [eval EXCEPT !.queries = @ + 1, !.call = None, !.ret = Some(emitted),
                      !.rng = scatter.rng]

\* color that returns black where world.hit found nothing
ColorFoundOrBlack(eval, bg, call, found) ==
    IF IsSome(found)
    THEN ColorScatter(eval, call, Emit(Unwrap(found).material, Unwrap(found).p),
                      Scatter(Unwrap(found).material, eval.rng, call.ray, Unwrap(found)))
    ELSE [eval EXCEPT !.queries = @ + 1, !.call = None, !.ret = Some(<<Zero, Zero, Zero>>)]

\* color after world.hit returned found
ColorFound(eval, bg, call, found) ==
    IF IsSome(found)
    THEN ColorScatter(eval, call, Emit(Unwrap(found).material, Unwrap(found).p),
                      Scatter(Unwrap(found).material, eval.rng, call.ray, Unwrap(found)))
    ELSE [eval EXCEPT !.queries = @ + 1, !.call = None, !.ret = Some(bg)]

\* the body of color up to its recursive call or its return
ColorEnter(eval, bg, use_bvh, list, member) ==
    IF DepthExhausted(Unwrap(eval.call).max_depth)
    THEN [eval EXCEPT !.call = None, !.ret = Some(<<Zero, Zero, Zero>>)]
    ELSE ColorFound(eval, bg, Unwrap(eval.call),
                    ColorHit(use_bvh, list, member, Unwrap(eval.call).ray))

\* (emitted + scatter.attenuation()) * color(..)
Shade(caller, returned) == VMul(VAdd(caller.emitted, caller.attenuation), returned)

\* the return of a recursive call to its caller
ColorReturn(eval) ==
    [eval EXCEPT !.stack = SubSeq(@, 1, Len(@) - 1),
                 !.ret = Some(Shade(eval.stack[Len(eval.stack)], Unwrap(eval.ret)))]

ColorStep(eval, bg, use_bvh, list, member) ==
    IF IsSome(eval.call) THEN ColorEnter(eval, bg, use_bvh, list, member)
    ELSE ColorReturn(eval)

\* whether scatter on the hit found, if any, takes only square roots that are
\* values of the model
FoundRepresentable(found, rng, ray) ==
    IsSome(found) => ScatterRepresentable(Unwrap(found).material, rng, ray, Unwrap(found))

\* whether the next step of an evaluation takes only square roots that are
\* values of the model
StepRepresentable(eval, use_bvh, list, member) ==
    IsSome(eval.call) /\ Unwrap(eval.call).max_depth # 0 =>
        /\ Representable(list, Unwrap(eval.call).ray)
        /\ FoundRepresentable(ColorHit(use_bvh, list, member, Unwrap(eval.call).ray),
                              eval.rng, Unwrap(eval.call).ray)

\* color run to its return; exact is FALSE when a step leaves the model's values
RECURSIVE RunColor(_, _, _, _, _)
RunColor(eval, bg, use_bvh, list, member) ==
    IF Returned(eval) THEN [exact |-> TRUE, eval |-> eval]
    ELSE IF ~StepRepresentable(eval, use_bvh, list, member)
    THEN [exact |-> FALSE, eval |-> eval]
    ELSE RunColor(ColorStep(eval, bg, use_bvh, list, member),
                  bg, use_bvh, list, member)

(***************************************************************************)
(* Camera::ray (camera.rs) and render (renderer.rs)                        *)
(***************************************************************************)
\* random_in_unit_disk: the point it returns and the generator it leaves
RECURSIVE RandomInUnitDisk(_)
\* gen_p of random_in_unit_disk
GenDiskP(rng) ==
    VSub(VScale(Num(2), <<RandomDouble(rng), RandomDouble(NextRng(rng)), Zero>>),
         V(1, 1, 0))

\* the loop of random_in_unit_disk on the point p; rng is the generator
\* after p was drawn
UnitDiskLoop(p, rng) ==
    IF FGe(Dot(p, p), One) THEN RandomInUnitDisk(rng)
    ELSE [p |-> p, rng |-> rng]

RandomInUnitDisk(rng) == UnitDiskLoop(GenDiskP(rng), NextRng(NextRng(rng)))

\* offset of Camera::ray
LensOffset(self, rd) == VAdd(VScale(rd[1], self.u), VScale(rd[2], self.v))

\* Camera::ray once offset is known, rng being the generator
\* random_in_unit_disk left
CameraRayFrom(self, rng, offset, s, t) ==
    [ray |-> Ray(VAdd(self.origin, offset),
                 VSub(VSub(VAdd(VAdd(self.lower_left_corner,
                                     VScale(s, self.horizontal)),
                                VScale(t, self.vertical)),
                           self.origin),
                      offset),
                 FAdd(self.time_start,
                      FMul(RandomDouble(rng), FSub(self.time_end, self.time_start)))),
     rng |-> NextRng(rng)]

\* Camera::ray with the point random_in_unit_disk returned
CameraRayThrough(self, sample, s, t) ==
    CameraRayFrom(self, sample.rng,
                  LensOffset(self, VScale(self.lens_radius, sample.p)), s, t)

\* Camera::ray: the ray and the generator it leaves
CameraRay(self, rng, s, t) == CameraRayThrough(self, RandomInUnitDisk(rng), s, t)

\* a row that counts from the top of the image, as idx does
PixelRowFromTop(height, width, idx) == idx \div width

\* let j = screen_height - 1 - idx / screen_width
PixelRow(height, width, idx) ==
    height - 1 - idx \div width

\* let i = idx % screen_width
PixelColumn(width, idx) == idx % width

\* the max_depth render passes to color
RenderDepth == 50

\* color(rng, &ray, background, world, 50) for the ray camera.ray returned
PrimaryCall(primary) == ColorCall(primary.rng, primary.ray, RenderDepth)

\* the antialiasing loop of render with remaining iterations to go
RECURSIVE RenderSamples(_, _, _, _, _, _, _, _, _, _, _, _)
\* one more call of color is counted in what the rest of the loop returned
Counted(rest) == [rest EXCEPT !.calls = @ + 1]

\* the loop ends after the call of color it has just made
RenderSampledLast(run, rng, pixel, remaining, i, j, bg, use_bvh, list, member, cam, width, height) ==
    IF ~run.exact THEN [exact |-> FALSE, pixel |-> pixel, rng |-> rng, calls |-> 1]
    ELSE Counted(RenderSamples(run.eval.rng, VAdd(pixel, Unwrap(run.eval.ret)), 0,
                               i, j, bg, use_bvh, list, member, cam, width, height))

\* pixel += color(..), run being the evaluation of color
RenderSampled(run, rng, pixel, remaining, i, j, bg, use_bvh, list, member, cam, width, height) ==
    IF ~run.exact THEN [exact |-> FALSE, pixel |-> pixel, rng |-> rng, calls |-> 1]
    ELSE Counted(RenderSamples(run.eval.rng, VAdd(pixel, Unwrap(run.eval.ret)),
                               remaining - 1,
                               i, j, bg, use_bvh, list, member, cam, width, height))

RenderSamples(rng, pixel, remaining, i, j, bg, use_bvh, list, member, cam, width, height) ==
    IF remaining = 0 THEN [exact |-> TRUE, pixel |-> pixel, rng |-> rng, calls |-> 0]
    ELSE RenderSampled(
            RunColor(PrimaryCall(
                        CameraRay(cam, NextRng(NextRng(rng)),
                                  FDiv(FAdd(Num(i), RandomDouble(rng)), Num(width)),
                                  FDiv(FAdd(Num(j), RandomDouble(NextRng(rng))),
                                       Num(height)))),
                     bg, use_bvh, list, member),
            rng, pixel, remaining, i, j, bg, use_bvh, list, member, cam, width, height)

\* 255.99
ColorScale == Fin(25599, 100)

\* the square root and the scaling of render, when the model has the roots
RenderScaled(exact, mean, rng, i, j, calls) ==
    [exact |-> exact,
     pixel |-> IF exact
               THEN VScale(ColorScale, <<FSqrt(mean[1]), FSqrt(mean[2]), FSqrt(mean[3])>>)
               ELSE mean,
     rng |-> rng, i |-> i, j |-> j, calls |-> calls]

\* render after its antialiasing loop: pixel /= antialias_iterations as f64
RenderSum(sum, samples, i, j) ==
    RenderScaled(sum.exact /\ \A c \in 1..3 : HasSqrt(VDivS(sum.pixel, Num(samples))[c]),
                 VDivS(sum.pixel, Num(samples)), sum.rng, i, j, sum.calls)

\* render: the pixel, the generator it leaves, the i and j it worked with and
\* the number of calls of color it made
Render(rng, bg, use_bvh, list, member, cam, width, height, samples, idx) ==
    RenderSum(RenderSamples(rng, <<Zero, Zero, Zero>>, samples, PixelColumn(width, idx),
                            PixelRow(height, width, idx), bg, use_bvh, list, member,
                            cam, width, height),
              samples, PixelColumn(width, idx), PixelRow(height, width, idx))

\* the cast f64 as u8: it saturates, and NaN is 0
AsU8(a) ==
    CASE IsNaN(a) -> 0
      [] a.k = "pinf" -> U8Values - 1
      [] a.k = "ninf" -> 0
      [] OTHER -> IF a.n < 0 THEN 0
                  ELSE IF a.n \div a.d > U8Values - 1 THEN U8Values - 1
                  ELSE a.n \div a.d

\* .flat_map(|pixel| vec![pixel.r() as u8, pixel.g() as u8, pixel.b() as u8])
\* .collect() over the pixels from index idx on
RECURSIVE FlatMapFrom(_, _)
FlatMapFrom(rendered, idx) ==
    IF idx > Len(rendered) THEN <<>>
    ELSE <<AsU8(rendered[idx][1]), AsU8(rendered[idx][2]), AsU8(rendered[idx][3])>>
         \o FlatMapFrom(rendered, idx + 1)

(***************************************************************************)
(* Inputs                                                                  *)
(***************************************************************************)
\* the largest number of shapes in a scene
MaxShapes == 3

\* the values rng.random_double() returns in the model, all in [0, 1)
RandomDoubles == {Zero, Fin(1, 2), Fin(7, 8)}

\* the shutter interval, as CameraConfig's defaults set it
TimeInitial == Zero
TimeFinal == One

White == Lambertian(ConstantTexture(One, One, One))
Glass == Dielectric(Fin(3, 2))
Lamp == DiffuseLight(ConstantTexture(Num(4), Num(4), Num(4)))
Steel == Metal(<<One, One, One>>, Zero)

\* the shapes scenes are made of: static_world's glass sphere (sphere_d) and
\* the inner surface of its shell (sphere_e, of radius -0.45), two coplanar
\* overlapping rectangles, a box and a moving sphere
Catalogue ==
    << Sphere(V(-1, 0, -1), Fin(1, 2), Glass),
       Sphere(V(-1, 0, -1), Fin(-9, 20), Glass),
       XyRect(Zero, Num(2), Zero, Num(2), One, Lamp),
       XyRect(One, Num(3), One, Num(3), One, White),
       Cube(V(0, 0, 0), V(1, 1, 1), Steel),
       MovingSphere(V(0, 0, 0), V(0, 2, 0), One, White, Zero, One) >>

Injective(f) == \A i, j \in DOMAIN f : i # j => f[i] # f[j]

\* the scene without a shape and every list of 1..MaxShapes different
\* shapes of the catalogue
Scenes ==
    {<<>>} \cup
    UNION { { [i \in 1..n |-> Catalogue[f[i]]] :
                f \in { g \in [1..n -> 1..Len(Catalogue)] : Injective(g) } } :
            n \in 1..MaxShapes }

Origins == {V(-1, 1, 0), V(1, 1, 0), V(-1, -2, -1)}
Directions == {V(1, -1, 1), V(0, 0, 1), V(0, 1, 0)}
RayTimes == {Fin(1, 2)}
Rays == {Ray(o, d, time) : o \in Origins, d \in Directions, time \in RayTimes}

\* (t_min, t_max) of a query; <<1/1000, +inf>> is the one color makes
Ranges == {<<Fin(1, 1000), PInf>>, <<Zero, One>>}

\* the variables of color and of render_world, where they play no part
NoColor ==
    /\ background = <<Zero, Zero, Zero>>
    /\ use_bounding_volume = TRUE
    /\ first_ray = None
    /\ first_depth = 0
    /\ evaluation = None

NoRender ==
    /\ camera = None
    /\ screen_width = 0
    /\ screen_height = 0
    /\ antialias_iterations = 0
    /\ render_parallel = FALSE
    /\ rngs = <<>>
    /\ pixels = <<>>
    /\ buffer = None
    /\ earlier = None

\* the variables of a function called on its own, where none is
NoCall ==
    /\ callee = ""
    /\ arguments = None
    /\ result = None

(***************************************************************************)
(* The scene and its queries                                               *)
(***************************************************************************)
InitBVH ==
    /\ phase = "config"
    /\ scene \in Scenes
    /\ shapes = <<>>
    /\ root = None
    /\ query = None
    /\ bvh_hit = None
    /\ list_hit = None
    /\ NoColor
    /\ NoRender
    /\ NoCall

\* BoundingVolumeHierarchy::new, as gen_world calls it.  A build whose
\* recursion does not end exhausts the stack, and the program is aborted.
NewBVH ==
    /\ phase = "config"
    /\ IF BuildOverflows(Len(scene))
       THEN /\ phase' = "aborted"
            /\ UNCHANGED <<shapes, root>>
       ELSE /\ \E draws \in [1..BuildCalls(Len(scene)) -> RandomDoubles] :
                  \E built \in {BuildTree(SeedFrom(draws), scene, 0, Len(scene),
                                          TimeInitial, TimeFinal)} :
                     /\ shapes' = built.shapes
                     /\ root' = Some(built.member)
            /\ phase' = "built"
    /\ UNCHANGED <<scene, query, bvh_hit, list_hit, color_vars, render_vars, call_vars>>

\* one query of the world, answered both ways render_world can answer it:
\* BoundingVolumeHierarchy::hit (use_bounding_volume) and the shape list's hit
WorldHit ==
    /\ phase = "built"
    /\ \E ray \in Rays, range \in Ranges :
          /\ Representable(shapes, ray)
          /\ query' = Some([ray |-> ray, t_min |-> range[1], t_max |-> range[2]])
          /\ bvh_hit' = IndexedHit(Unwrap(root), shapes, ray, range[1], range[2])
          /\ list_hit' = ListHit(shapes, ray, range[1], range[2])
    /\ phase' = "queried"
    /\ UNCHANGED <<scene, shapes, root, color_vars, render_vars, call_vars>>

NextBVH == NewBVH \/ WorldHit

SpecBVH == InitBVH /\ [][NextBVH]_vars

(***************************************************************************)
(* One evaluation of color                                                 *)
(***************************************************************************)
\* the largest max_depth color is called with, next to render's own
MaxDepth == 2

ColorDepths == 0..MaxDepth \cup {RenderDepth}

Sky == <<Fin(1, 4), Fin(1, 4), One>>
Backgrounds == {<<Zero, Zero, Zero>>, Sky}

Materials == {White, Glass, Lamp, Steel}

\* two rectangles that face each other across the slab 0 <= z <= 1
ColorScenes ==
    { << XyRect(Zero, Num(2), Zero, Num(2), One, upper),
         XyRect(Zero, Num(2), Zero, Num(2), Zero, lower) >> :
      upper \in Materials, lower \in Materials }

\* rays into the slab from below and from within, straight and oblique, and
\* one that leaves the scene
ColorRays ==
    { Ray(V(1, 1, -2), V(0, 0, 1), Zero),
      Ray(<<One, One, Fin(1, 2)>>, V(0, 0, 1), Zero),
      Ray(<<One, One, Fin(1, 2)>>, V(0, 3, 4), Zero),
      Ray(V(1, 1, -2), V(0, 0, -1), Zero) }

\* the streams of the generators color is given: on each of them every
\* rejection loop ends
ColorStreams ==
    { <<Fin(1, 2)>>,
      <<Fin(1, 2), Fin(1, 2), Fin(7, 8)>>,
      <<Fin(1, 2), Fin(7, 8), Fin(1, 2)>>,
      <<Zero, Fin(1, 2), Fin(1, 2), Fin(1, 2)>> }

\* the stream the hierarchy of a colour scene is built with
BuildStream == <<Fin(1, 2)>>

InitColor ==
    /\ phase = "color"
    /\ scene \in ColorScenes
    /\ \E built \in {BuildTree(SeedFrom(BuildStream), scene, 0, Len(scene),
                               TimeInitial, TimeFinal)} :
          /\ shapes = built.shapes
          /\ root = Some(built.member)
    /\ query = None
    /\ bvh_hit = None
    /\ list_hit = None
    /\ background \in Backgrounds
    /\ use_bounding_volume \in BOOLEAN
    /\ first_ray \in {Some(r) : r \in ColorRays}
    /\ first_depth \in ColorDepths
    /\ \E stream \in ColorStreams :
          evaluation = Some(ColorCall(SeedFrom(stream), Unwrap(first_ray), first_depth))
    /\ NoRender
    /\ NoCall

\* the call that is running, and what its world.hit and scatter return
Running == phase = "color" /\ IsSome(Unwrap(evaluation).call)
RunningCall == Unwrap(Unwrap(evaluation).call)
RunningHit == ColorHit(use_bounding_volume, shapes, Unwrap(root), RunningCall.ray)
RunningScatter ==
    Scatter(Unwrap(RunningHit).material, Unwrap(evaluation).rng, RunningCall.ray,
            Unwrap(RunningHit))

\* the step the evaluation takes next stays within the model's values
Exact == StepRepresentable(Unwrap(evaluation), use_bounding_volume, shapes, Unwrap(root))

\* one step of the evaluation
Step ==
    /\ evaluation' = Some(ColorStep(Unwrap(evaluation), background,
                                    use_bounding_volume, shapes, Unwrap(root)))
    /\ phase' = IF Returned(Unwrap(evaluation')) THEN "returned" ELSE "color"
    /\ UNCHANGED <<bvh_vars, background, use_bounding_volume, first_ray, first_depth,
                   render_vars, call_vars>>

\* max_depth == 0: black
ColorBlack == Running /\ RunningCall.max_depth = 0 /\ Step

\* no hit: the background
ColorMiss ==
    /\ Running /\ RunningCall.max_depth # 0 /\ Exact
    /\ IsNone(RunningHit)
    /\ Step

\* a hit whose material does not scatter: the emitted value
ColorEmitted ==
    /\ Running /\ RunningCall.max_depth # 0 /\ Exact
    /\ IsSome(RunningHit)
    /\ IsNone(RunningScatter.response)
    /\ Step

\* a hit whose material scatters: the recursive call
ColorScattered ==
    /\ Running /\ RunningCall.max_depth # 0 /\ Exact
    /\ IsSome(RunningHit)
    /\ IsSome(RunningScatter.response)
    /\ Step

\* a recursive call returns to its caller
ColorReturned == phase = "color" /\ ~Running /\ Step

NextColor == ColorBlack \/ ColorMiss \/ ColorEmitted \/ ColorScattered \/ ColorReturned

SpecColor == InitColor /\ [][NextColor]_vars

(***************************************************************************)
(* render_world                                                            *)
(***************************************************************************)
\* the largest antialias_iterations
MaxSamples == 2

\* the number of threads that run render in parallel mode
NumWorkers == 2
Workers == 1..NumWorkers

\* (screen_width, screen_height)
ScreenSizes == {<<2, 1>>, <<1, 2>>, <<2, 2>>}

\* Camera::new((0, 0, 0), (0, 0, -1), (0, 1, 0), 90.0, 1.0, 0.0, 1.0, 0.0, 1.0)
Pinhole ==
    [origin |-> V(0, 0, 0), lower_left_corner |-> V(-1, -1, -1),
     horizontal |-> V(2, 0, 0), vertical |-> V(0, 2, 0),
     u |-> V(1, 0, 0), v |-> V(0, 1, 0), w |-> V(0, 0, 1),
     lens_radius |-> Zero, time_start |-> TimeInitial, time_end |-> TimeFinal]

\* a light at the right edge of the image plane and a diffuse wall on its left
RenderScene ==
    << XyRect(Fin(3, 4), One, Num(-1), One, Num(-1), Lamp),
       XyRect(Num(-1), Fin(-1, 4), Num(-1), One, Num(-1), White) >>

\* the streams SmallRng::from_entropy can start a render generator on
RenderStreams == { <<Fin(1, 2)>>, <<Fin(7, 8), Fin(1, 2)>> }

Indices == 0..(screen_width * screen_height - 1)

\* render_world is entered with the world of list and an image of one of the
\* given sizes
InitRenderIn(list, sizes) ==
    /\ phase = "rendering"
    /\ scene = list
    /\ \E built \in {BuildTree(SeedFrom(BuildStream), scene, 0, Len(scene),
                               TimeInitial, TimeFinal)} :
          /\ shapes = built.shapes
          /\ root = Some(built.member)
    /\ query = None
    /\ bvh_hit = None
    /\ list_hit = None
    /\ background = Sky
    /\ use_bounding_volume \in BOOLEAN
    /\ first_ray = None
    /\ first_depth = 0
    /\ evaluation = None
    /\ camera = Some(Pinhole)
    /\ \E size \in sizes : screen_width = size[1] /\ screen_height = size[2]
    /\ antialias_iterations \in 1..MaxSamples
    /\ render_parallel \in BOOLEAN
    /\ rngs = [w \in Workers |-> None]
    /\ pixels = [idx \in 0..(screen_width * screen_height - 1) |-> None]
    /\ buffer = None
    /\ earlier = None
    /\ NoCall

InitRenderOf(sizes) == InitRenderIn(RenderScene, sizes)

\* render for index idx with the generator rng
Rendered(rng, idx) ==
    Render(rng, background, use_bounding_volume, shapes, Unwrap(root), Unwrap(camera),
           screen_width, screen_height, antialias_iterations, idx)

\* the generator worker w draws from is the one in slot 1
RngOfShared(w) == 1

\* map_init gives each worker a generator of its own
RngOf(w) == w

\* SmallRng::from_entropy, as map_init calls it for a worker
WorkerInit(w) ==
    /\ phase = "rendering" /\ render_parallel
    /\ IsNone(rngs[RngOf(w)])
    /\ \E stream \in RenderStreams :
          rngs' = [rngs EXCEPT ![RngOf(w)] = Some(SeedFrom(stream))]
    /\ UNCHANGED <<phase, bvh_vars, color_vars, call_vars, camera, screen_width, screen_height,
                   antialias_iterations, render_parallel, pixels, buffer, earlier>>

\* worker w runs the map closure on index idx
RenderPixel(w, idx) ==
    /\ phase = "rendering" /\ render_parallel
    /\ IsSome(rngs[RngOf(w)])
    /\ IsNone(pixels[idx])
    /\ \E done \in {Rendered(Unwrap(rngs[RngOf(w)]), idx)} :
          /\ done.exact
          /\ pixels' = [pixels EXCEPT ![idx] =
                           Some([pixel |-> done.pixel, i |-> done.i, j |-> done.j,
                                 calls |-> done.calls])]
          /\ rngs' = [rngs EXCEPT ![RngOf(w)] = Some(done.rng)]
    /\ UNCHANGED <<phase, bvh_vars, color_vars, call_vars, camera, screen_width, screen_height,
                   antialias_iterations, render_parallel, buffer, earlier>>

\* the sequential map closure, on the next index of screen
RenderNext ==
    /\ phase = "rendering" /\ ~render_parallel
    /\ \E idx \in Indices :
          /\ IsNone(pixels[idx])
          /\ \A before \in 0..(idx - 1) : IsSome(pixels[before])
          /\ \E stream \in RenderStreams :
                \E done \in {Rendered(SeedFrom(stream), idx)} :
                   /\ done.exact
                   /\ pixels' = [pixels EXCEPT ![idx] =
                                    Some([pixel |-> done.pixel, i |-> done.i,
                                          j |-> done.j, calls |-> done.calls])]
    /\ UNCHANGED <<phase, bvh_vars, color_vars, call_vars, camera, screen_width, screen_height,
                   antialias_iterations, render_parallel, rngs, buffer, earlier>>

\* flat_map and collect: the bytes of the pixels in the order of their indices
Collect ==
    /\ phase = "rendering"
    /\ \A idx \in Indices : IsSome(pixels[idx])
    /\ buffer' = Some(FlatMapFrom([k \in 1..(screen_width * screen_height) |->
                                      Unwrap(pixels[k - 1]).pixel], 1))
    /\ phase' = "done"
    /\ UNCHANGED <<bvh_vars, color_vars, call_vars, camera, screen_width, screen_height,
                   antialias_iterations, render_parallel, rngs, pixels, earlier>>

\* render_world is called once more with the arguments of the call that returned
RunAgain ==
    /\ phase = "done"
    /\ IsNone(earlier)
    /\ earlier' = buffer
    /\ buffer' = None
    /\ rngs' = [w \in Workers |-> None]
    /\ pixels' = [idx \in Indices |-> None]
    /\ phase' = "rendering"
    /\ UNCHANGED <<bvh_vars, color_vars, call_vars, camera, screen_width, screen_height,
                   antialias_iterations, render_parallel>>

InitRender == InitRenderOf(ScreenSizes)

NextRender ==
    \/ \E w \in Workers : WorkerInit(w)
    \/ \E w \in Workers, idx \in Indices : RenderPixel(w, idx)
    \/ RenderNext
    \/ Collect

\* one call of render_world
SpecRender == InitRender /\ [][NextRender]_vars

\* a light that fills the image plane: every sample of every pixel is the
\* light's colour, whose mean has a square root the model can write
LampScene == << XyRect(Num(-2), Num(2), Num(-2), Num(2), Num(-1), Lamp) >>

InitRenderFair == InitRenderIn(LampScene, ScreenSizes)

\* ENABLED WorkerInit(w)
WorkerInitEnabled(w) ==
    phase = "rendering" /\ render_parallel /\ IsNone(rngs[RngOf(w)])

\* ENABLED RenderPixel(w, idx): render returns for idx with the generator of w
RenderPixelEnabled(w, idx) ==
    /\ phase = "rendering" /\ render_parallel
    /\ IsSome(rngs[RngOf(w)])
    /\ IsNone(pixels[idx])
    /\ Rendered(Unwrap(rngs[RngOf(w)]), idx).exact

\* ENABLED RenderNext
RenderNextEnabled ==
    /\ phase = "rendering" /\ ~render_parallel
    /\ \E idx \in Indices :
          /\ IsNone(pixels[idx])
          /\ \A before \in 0..(idx - 1) : IsSome(pixels[before])
          /\ \E stream \in RenderStreams : Rendered(SeedFrom(stream), idx).exact

\* ENABLED Collect
CollectEnabled == phase = "rendering" /\ \A idx \in Indices : IsSome(pixels[idx])

\* ENABLED <<NextRender>>_vars: each step of the render changes pixels, rngs
\* or phase
NextRenderEnabled ==
    \/ \E w \in Workers : WorkerInitEnabled(w)
    \/ \E w \in Workers, idx \in Indices : RenderPixelEnabled(w, idx)
    \/ RenderNextEnabled
    \/ CollectEnabled

\* one call of render_world whose threads keep running: a thread of rayon's
\* pool or the sequential iterator runs the closure of an index that is left,
\* render returns once its rejection-sampling loops accept, and collect
\* returns once the map is through.  The second condition is
\* WF_vars(NextRender) with its ENABLED written out as NextRenderEnabled.
SpecRenderFair ==
    /\ InitRenderFair /\ [][NextRender]_vars
    /\ WF_vars(Collect)
    /\ ([]<>(~NextRenderEnabled) \/ []<><<NextRender>>_vars)

\* the sizes of the images that are rendered twice
SmallScreenSizes == {<<1, 1>>, <<2, 1>>}

InitRenderTwice == InitRenderOf(SmallScreenSizes)

NextRenderTwice == NextRender \/ RunAgain

\* two calls of render_world with the same arguments
SpecRenderTwice == InitRenderTwice /\ [][NextRenderTwice]_vars

(***************************************************************************)
(* Functions of the geometry called on their own                           *)
(***************************************************************************)
\* the spheres Sphere::hit and Moving<Sphere>::hit are called on: a unit
\* sphere, a sphere of negative radius and a sphere that moves
HitSpheres ==
    { Sphere(V(0, 0, 0), One, White),
      Sphere(V(0, 0, -1), Fin(-1, 2), Glass),
      MovingSphere(V(0, 0, 0), V(0, 2, 0), One, White, Zero, One) }

\* rays from outside, from the centre, from within and past the spheres
HitRays ==
    { Ray(o, d, time) :
        o \in {V(0, 0, 3), V(0, 0, 0), V(0, 0, -1), V(0, 3, 0), V(2, 0, 3)},
        d \in {V(0, 0, -1), V(0, 0, 1), V(0, -1, 0), V(0, 0, -2)},
        time \in {Zero, Fin(1, 2)} }

\* (t_min, t_max)
HitRanges ==
    { <<Zero, PInf>>, <<Fin(1, 1000), PInf>>, <<Zero, One>>, <<Num(3), PInf>>,
      <<Num(2), Num(4)>> }

SphereCalls ==
    { [self |-> s, ray |-> r, t_min |-> range[1], t_max |-> range[2]] :
        s \in HitSpheres, r \in HitRays, range \in HitRanges }

\* Sphere::hit or Moving<Sphere>::hit is called
InitSphereHit ==
    /\ callee = "Sphere::hit"
    /\ arguments \in {Some(c) : c \in {c \in SphereCalls : Representable(<<c.self>>, c.ray)}}

\* the boxes surrounding_box is called on, each with min <= max: nested,
\* overlapping, apart, flat, a point, half-infinite and all of space
UnionBoxes ==
    { AABB(V(0, 0, 0), V(1, 1, 1)),
      AABB(V(-1, -1, -1), V(2, 2, 2)),
      AABB(<<Fin(1, 2), Fin(1, 2), Fin(1, 2)>>, V(3, 3, 3)),
      AABB(V(5, 5, 5), V(6, 6, 6)),
      AABB(V(0, -2, 4), V(1, 3, 4)),
      AABB(V(2, 2, 2), V(2, 2, 2)),
      AABB(<<NInf, Zero, NInf>>, V(0, 0, 0)),
      AABB(<<NInf, NInf, NInf>>, <<PInf, PInf, PInf>>) }

\* AABB::surrounding_box is called on three boxes, in both orders and in
\* both groupings
InitSurroundingBox ==
    /\ callee = "AABB::surrounding_box"
    /\ arguments \in {Some([a |-> a, b |-> b, c |-> c]) : a, b, c \in UnionBoxes}

\* the boxes AABB::hit is called on, each with min < max on every axis
SlabBoxes == { AABB(V(0, 0, 0), V(2, 2, 2)), AABB(V(-1, -2, -3), V(1, 2, 5)) }

\* rays through the centres, from the centres, from a face, from outside a
\* slab, along the axes, against them, askew and without a direction
SlabRays ==
    { Ray(o, d, Zero) :
        o \in {V(1, 1, -3), V(1, 1, 1), V(3, 1, 1), V(0, 1, 1), V(-1, -1, -1), V(0, 0, 1),
               V(1, 5, 1), V(1, 1, 4)},
        d \in {V(0, 0, 1), V(0, 0, -1), V(1, 1, 1), V(0, 0, 0), V(-1, 0, 0), V(1, 0, 0),
               V(0, -2, 0), V(2, 2, 2)} }

\* AABB::hit is called
InitAABBHit ==
    /\ callee = "AABB::hit"
    /\ arguments \in { Some([self |-> box, ray |-> r, t_min |-> range[1], t_max |-> range[2]]) :
                         box \in SlabBoxes, r \in SlabRays, range \in HitRanges }

\* the ray directions and outward normals Hit::new is called on: opposed,
\* aligned, perpendicular, askew and zero
FacingDirections == {V(0, 0, -1), V(0, 0, 1), V(1, 0, 0), V(1, -1, 2), V(-2, 1, 1), V(0, 0, 0)}
FacingNormals ==
    {V(0, 0, 1), V(0, 0, -1), V(0, 1, 0), <<Fin(3, 5), Zero, Fin(4, 5)>>, V(1, 1, 1), V(0, 0, 0)}

\* Hit::new is called
InitHitNew ==
    /\ callee = "Hit::new"
    /\ arguments \in { Some([t |-> t, p |-> V(0, 0, 1), ray |-> Ray(V(0, 0, 3), d, Zero),
                             outward_normal |-> n, material |-> White]) :
                         t \in {One, Num(2)}, d \in FacingDirections, n \in FacingNormals }

\* a pair node with its children exchanged
Exchanged(member) == Node(member.bounds, member.right, member.left)

\* the arguments of indexed_hit on the pair node built, and on that node
\* with its children exchanged
PairCall(built, ray, t_min, t_max) ==
    [self |-> built.member, exchanged |-> Exchanged(built.member), shapes |-> built.shapes,
     ray |-> ray, t_min |-> t_min, t_max |-> t_max]

\* every pair node build_tree makes of two different shapes of the catalogue
PairsBuilt ==
    { BuildTree(SeedFrom(<<draw>>), pair, 0, 2, TimeInitial, TimeFinal) :
        pair \in {list \in Scenes : Len(list) = 2}, draw \in RandomDoubles }

\* BVHMember::indexed_hit is called on a pair node
InitIndexedHit ==
    /\ callee = "BVHMember::indexed_hit"
    /\ arguments \in { Some(PairCall(built, ray, range[1], range[2])) :
                         built \in PairsBuilt,
                         ray \in {r \in Rays : Representable(Catalogue, r)},
                         range \in Ranges }

\* the spheres that move: along an axis, askew over a shutter that does not
\* open at 0, with a negative radius, and one that stays where it is
MovingSpheres ==
    { MovingSphere(V(0, 0, 0), V(0, 2, 0), One, White, Zero, One),
      MovingSphere(V(1, -1, 0), V(-1, 1, 2), Fin(1, 2), White, One, Num(3)),
      MovingSphere(V(0, 0, 0), V(2, 0, 0), Fin(-1, 2), Glass, Zero, One),
      MovingSphere(V(1, 1, 1), V(1, 1, 1), One, White, Zero, One) }

\* the ends of query intervals and the times of rays
MovingTimes == { Zero, Fin(1, 2), One, Num(2), Num(3) }

\* Moving<Sphere>::bounding_box is called on [time_start, time_end], and
\* Moving::center at the ends of the sphere's own interval and at a time of
\* the query interval
InitMovingBox ==
    /\ callee = "Moving<Sphere>::bounding_box"
    /\ arguments \in { Some([self |-> s, time_start |-> t0, time_end |-> t1, time |-> t]) :
                         s \in MovingSpheres,
                         t0 \in MovingTimes, t1 \in MovingTimes, t \in MovingTimes }
    /\ FLe(Unwrap(arguments).time_start, Unwrap(arguments).time)
    /\ FLe(Unwrap(arguments).time, Unwrap(arguments).time_end)

\* the shapes hit is compared with the hit of their boxes on: one of each
\* variant, the rectangles and the cube between 0 and 2, the spheres of
\* radius 1
BoxedShapes ==
    { Sphere(V(0, 0, 0), One, White),
      XyRect(Zero, Num(2), Zero, Num(2), Zero, White),
      XzRect(Zero, Num(2), Zero, Num(2), Zero, White),
      YzRect(Zero, Num(2), Zero, Num(2), Zero, White),
      Cube(V(0, 0, 0), V(2, 2, 2), White),
      MovingSphere(V(0, 0, 0), V(0, 2, 0), One, White, TimeInitial, TimeFinal) }

\* rays that meet the shapes in their middle, on an edge and in a corner,
\* along an axis and askew, and rays that run in the planes of the rectangles
BoxedRays ==
    { Ray(o, d, time) :
        o \in {V(1, 1, 3), V(0, 1, 3), V(0, 0, 3), V(-1, 1, 1), V(3, 1, 1), V(1, 3, 1),
               V(3, 3, 3), V(1, 1, 0)},
        d \in {V(0, 0, -1), V(0, 0, -2), V(1, 1, -1), V(-1, 0, 0), V(0, -1, 0),
               V(-1, -1, -1)},
        time \in {Zero, Fin(1, 2)} }

\* Shape::hit is called, and AABB::hit on the box of the shape
InitShapeHit ==
    /\ callee = "Shape::hit"
    /\ arguments \in { Some([self |-> s, ray |-> r, t_min |-> range[1], t_max |-> range[2]]) :
                         s \in BoxedShapes,
                         r \in {r \in BoxedRays : \A s \in BoxedShapes : Representable(<<s>>, r)},
                         range \in HitRanges }

\* the cubes Cube::hit is called on, with p0 < p1 on every axis
HitCubes == { Cube(V(0, 0, 0), V(2, 2, 2), White), Cube(V(-1, -1, -1), V(1, 2, 3), Glass) }

\* rays from beyond each of the six faces, from a corner's side and from
\* within, along the axes, against them and askew
CubeRays ==
    { Ray(o, d, Zero) :
        o \in {V(1, 1, 5), V(1, 1, -3), V(1, 5, 1), V(1, -3, 1), V(5, 1, 1), V(-3, 1, 1),
               V(4, 4, 4), V(0, 0, 1)},
        d \in {V(0, 0, 1), V(0, 0, -1), V(0, 1, 0), V(0, -1, 0), V(1, 0, 0), V(-1, 0, 0),
               V(-1, -1, -1), V(1, 2, 2)} }

\* Cube::hit is called
InitCubeHit ==
    /\ callee = "Cube::hit"
    /\ arguments \in { Some([self |-> c, ray |-> r, t_min |-> range[1], t_max |-> range[2]]) :
                         c \in HitCubes, r \in CubeRays, range \in HitRanges }

\* the largest number of shapes in a tree level_order is called on
MaxLevelShapes == 7

\* n spheres in a row
SpheresInRow(n) == [i \in 1..n |-> Sphere(V(i, 0, 0), One, White)]

\* level_order is called on the root build_tree made of 1..MaxLevelShapes shapes
InitLevelOrder ==
    /\ callee = "BVHMember::level_order"
    /\ arguments \in { Some([self |-> BuildTree(SeedFrom(<<draw>>), SpheresInRow(n), 0, n,
                                                TimeInitial, TimeFinal).member]) :
                         n \in 1..MaxLevelShapes, draw \in RandomDoubles }

\* a function of the geometry is called on its own
InitGeometry ==
    /\ phase = "call"
    /\ scene = <<>>
    /\ shapes = <<>>
    /\ root = None
    /\ query = None
    /\ bvh_hit = None
    /\ list_hit = None
    /\ NoColor
    /\ NoRender
    /\ result = None
    /\ \/ InitSphereHit
       \/ InitSurroundingBox
       \/ InitAABBHit
       \/ InitHitNew
       \/ InitIndexedHit
       \/ InitMovingBox
       \/ InitShapeHit
       \/ InitCubeHit
       \/ InitLevelOrder

\* the function returns
Return(value) ==
    /\ result' = Some(value)
    /\ phase' = "returned"
    /\ UNCHANGED <<bvh_vars, color_vars, render_vars, callee, arguments>>

SphereHitCall ==
    /\ phase = "call" /\ callee = "Sphere::hit"
    /\ Return(ShapeHit(Unwrap(arguments).self, Unwrap(arguments).ray,
                       Unwrap(arguments).t_min, Unwrap(arguments).t_max))

\* a.surrounding_box(b), b.surrounding_box(a), and the two groupings of
\* the three boxes
SurroundingBoxes(a, b, c) ==
    [ab |-> SurroundingBox(a, b),
     ba |-> SurroundingBox(b, a),
     ab_c |-> SurroundingBox(SurroundingBox(a, b), c),
     a_bc |-> SurroundingBox(a, SurroundingBox(b, c))]

SurroundingBoxCall ==
    /\ phase = "call" /\ callee = "AABB::surrounding_box"
    /\ Return(SurroundingBoxes(Unwrap(arguments).a, Unwrap(arguments).b,
                               Unwrap(arguments).c))

AABBHitCall ==
    /\ phase = "call" /\ callee = "AABB::hit"
    /\ Return(AABBHit(Unwrap(arguments).self, Unwrap(arguments).ray,
                      Unwrap(arguments).t_min, Unwrap(arguments).t_max))

HitNewCall ==
    /\ phase = "call" /\ callee = "Hit::new"
    /\ Return(HitNew(Unwrap(arguments).t, Unwrap(arguments).p, Unwrap(arguments).ray,
                     Unwrap(arguments).outward_normal, Unwrap(arguments).material))

\* indexed_hit on the node and on the node with its children exchanged
IndexedHits(call) ==
    [self |-> IndexedHit(call.self, call.shapes, call.ray, call.t_min, call.t_max),
     exchanged |-> IndexedHit(call.exchanged, call.shapes, call.ray, call.t_min,
                              call.t_max)]

IndexedHitCall ==
    /\ phase = "call" /\ callee = "BVHMember::indexed_hit"
    /\ Return(IndexedHits(Unwrap(arguments)))

\* bounding_box(time_start, time_end), and center at three times
MovingBoxAndCentres(self, time_start, time_end, time) ==
    [bounding_box |-> MovingSphereBoundingBox(self, time_start, time_end),
     at_start |-> MovingCenter(self, self.time_start),
     at_end |-> MovingCenter(self, self.time_end),
     center |-> MovingCenter(self, time)]

MovingBoxCall ==
    /\ phase = "call" /\ callee = "Moving<Sphere>::bounding_box"
    /\ Return(MovingBoxAndCentres(Unwrap(arguments).self, Unwrap(arguments).time_start,
                                  Unwrap(arguments).time_end, Unwrap(arguments).time))

\* bounds.hit(ray, t_min, t_max), bounds being what bounding_box returned
BoundsHit(bounds, ray, t_min, t_max) ==
    IsSome(bounds) /\ AABBHit(Unwrap(bounds), ray, t_min, t_max)

\* the hit of a shape, its box over the shutter interval, and the hit of the box
ShapeAndBounds(self, ray, t_min, t_max) ==
    [hit |-> ShapeHit(self, ray, t_min, t_max),
     bounding_box |-> BoundingBox(self, TimeInitial, TimeFinal),
     bounds_hit |-> BoundsHit(BoundingBox(self, TimeInitial, TimeFinal), ray, t_min, t_max)]

ShapeHitCall ==
    /\ phase = "call" /\ callee = "Shape::hit"
    /\ Return(ShapeAndBounds(Unwrap(arguments).self, Unwrap(arguments).ray,
                             Unwrap(arguments).t_min, Unwrap(arguments).t_max))

\* the hit of a cube, and the hit of each of its six sides on its own
CubeAndSides(self, ray, t_min, t_max) ==
    [hit |-> ShapeHit(self, ray, t_min, t_max),
     sides |-> [i \in 1..6 |-> RectHit(self.sides[i], ray, t_min, t_max)]]

CubeHitCall ==
    /\ phase = "call" /\ callee = "Cube::hit"
    /\ Return(CubeAndSides(Unwrap(arguments).self, Unwrap(arguments).ray,
                           Unwrap(arguments).t_min, Unwrap(arguments).t_max))

LevelOrderCall ==
    /\ phase = "call" /\ callee = "BVHMember::level_order"
    /\ Return(LevelOrder(Unwrap(arguments).self))

NextGeometry ==
    \/ SphereHitCall
    \/ SurroundingBoxCall
    \/ AABBHitCall
    \/ HitNewCall
    \/ IndexedHitCall
    \/ MovingBoxCall
    \/ ShapeHitCall
    \/ CubeHitCall
    \/ LevelOrderCall

SpecGeometry == InitGeometry /\ [][NextGeometry]_vars

(***************************************************************************)
(* Functions of the materials called on their own                          *)
(***************************************************************************)
\* a metal that scatters around the reflection, two kinds of glass, and the
\* materials of the scenes
ScatterMaterials ==
    { Steel, Metal(<<Fin(4, 5), Fin(3, 5), Fin(1, 2)>>, Fin(1, 2)),
      Dielectric(Fin(4, 3)), Dielectric(Fin(25, 16)), White, Lamp }

\* rays that meet the surface head-on, askew, along it and from behind
ScatterDirections ==
    { V(0, 0, -1), V(0, 0, -2), V(4, 0, -3), V(3, 0, -4), V(1, 0, 0), V(0, 0, 1) }

\* the outward normals of the surface: it is met from outside and from inside
ScatterNormals == { V(0, 0, 1), V(0, 0, -1) }

\* the values generators hand out, as cyclic streams
ScatterStreams ==
    { <<Fin(1, 2), Fin(1, 2), Fin(1, 2)>>,
      <<Fin(7, 8), Fin(1, 2), Fin(1, 2), Zero>>,
      <<Fin(1, 2), Fin(7, 8), Fin(1, 2)>>,
      <<Zero, Fin(1, 2), Fin(1, 2), Fin(7, 8)>> }

\* the arguments of Material::scatter for a ray that meets the surface at p
ScatterCallAt(material, stream, ray, outward_normal, p) ==
    [self |-> material, rng |-> SeedFrom(stream), ray |-> ray,
     hit |-> HitNew(One, p, ray, outward_normal, material)]

ScatterCalls ==
    { ScatterCallAt(material, stream, Ray(V(0, 0, 3), d, Fin(1, 2)), n, V(0, 0, 1)) :
        material \in ScatterMaterials, stream \in ScatterStreams,
        d \in ScatterDirections, n \in ScatterNormals }

\* Material::scatter is called
InitScatter ==
    /\ callee = "Material::scatter"
    /\ arguments \in { Some(c) : c \in { c \in ScatterCalls :
                                          ScatterRepresentable(c.self, c.rng, c.ray, c.hit) } }

\* the fuzziness a metal is asked for: within [0, 1], above it, below it,
\* infinite and not a number
Fuzzinesses == { Zero, Fin(1, 2), One, Num(2), Fin(-1, 2), Num(-2), PInf, NInf, NaN }

\* Metal::new is called
InitMetalNew ==
    /\ callee = "Metal::new"
    /\ arguments \in { Some([albedo |-> albedo, fuzziness |-> f]) :
                         albedo \in {<<One, One, One>>, <<Fin(4, 5), Fin(3, 5), Fin(1, 2)>>},
                         f \in Fuzzinesses }

\* Material::metal is called
InitMaterialMetal ==
    /\ callee = "Material::metal"
    /\ arguments \in { Some([e0 |-> e0, e1 |-> Fin(3, 5), e2 |-> Fin(1, 2), fuzziness |-> f]) :
                         e0 \in {One, Fin(4, 5)}, f \in Fuzzinesses }

\* a checker of a bright and a red colour, and a checker of checkers
Chequered == CheckerTexture(ConstantTexture(Num(4), Num(4), Num(4)), ConstantTexture(One, Zero, Zero))
ChequeredTwice == CheckerTexture(Chequered, ConstantTexture(Zero, Zero, One))

\* the materials emit is called on, the lights and the rest
EmitMaterials ==
    { White, Steel, Glass, Lamp, Lambertian(Chequered), DiffuseLight(Chequered),
      DiffuseLight(ChequeredTwice) }

\* points in the even and in the odd fields of a checker, and on their edge
EmitPoints ==
    { V(0, 0, 0), V(1, 1, 1), V(2, 1, -1),
      <<Fin(1, 10), Fin(1, 10), Fin(1, 10)>>, <<Fin(1, 10), Fin(1, 10), Fin(-1, 10)>>,
      <<Fin(2, 5), Fin(1, 10), Fin(1, 10)>> }

\* Material::emit is called
InitEmit ==
    /\ callee = "Material::emit"
    /\ arguments \in { Some([self |-> material, u |-> u, v |-> v, p |-> p]) :
                         material \in EmitMaterials, u \in {Zero, Fin(1, 2)},
                         v \in {Zero, Fin(1, 2)},
                         p \in { q \in EmitPoints :
                                   \A i \in 1..3 : HasSinSign(FMul(Num(10), q[i])) } }

\* a function of the materials is called on its own
InitMaterial ==
    /\ phase = "call"
    /\ scene = <<>>
    /\ shapes = <<>>
    /\ root = None
    /\ query = None
    /\ bvh_hit = None
    /\ list_hit = None
    /\ NoColor
    /\ NoRender
    /\ result = None
    /\ \/ InitScatter
       \/ InitMetalNew
       \/ InitMaterialMetal
       \/ InitEmit

ScatterCall ==
    /\ phase = "call" /\ callee = "Material::scatter"
    /\ Return(Scatter(Unwrap(arguments).self, Unwrap(arguments).rng, Unwrap(arguments).ray,
                      Unwrap(arguments).hit))

MetalNewCall ==
    /\ phase = "call" /\ callee = "Metal::new"
    /\ Return(Metal(Unwrap(arguments).albedo, Unwrap(arguments).fuzziness))

MaterialMetalCall ==
    /\ phase = "call" /\ callee = "Material::metal"
    /\ Return(MaterialMetal(Unwrap(arguments).e0, Unwrap(arguments).e1, Unwrap(arguments).e2,
                            Unwrap(arguments).fuzziness))

\* Material::emit; the textures of the model do not read u and v
EmitCall ==
    /\ phase = "call" /\ callee = "Material::emit"
    /\ Return(Emit(Unwrap(arguments).self, Unwrap(arguments).p))

NextMaterial ==
    \/ ScatterCall
    \/ MetalNewCall
    \/ MaterialMetalCall
    \/ EmitCall

SpecMaterial == InitMaterial /\ [][NextMaterial]_vars

(***************************************************************************)

(* Properties of the built tree                                            *)
(***************************************************************************)
\* the indices of the leaves below a member, left to right
RECURSIVE LeafIndices(_)
LeafIndices(member) ==
    IF member.kind = "Leaf" THEN <<member.index>>
    ELSE (IF IsSome(member.left) THEN LeafIndices(Unwrap(member.left)) ELSE <<>>)
         \o (IF IsSome(member.right) THEN LeafIndices(Unwrap(member.right)) ELSE <<>>)

RECURSIVE StrictlyBinary(_)
StrictlyBinary(member) ==
    member.kind = "Node" =>
        /\ IsSome(member.left) /\ IsSome(member.right)
        /\ StrictlyBinary(Unwrap(member.left))
        /\ StrictlyBinary(Unwrap(member.right))

RECURSIVE Nodes(_)
Nodes(member) ==
    IF member.kind = "Leaf" THEN {}
    ELSE {member}
         \cup (IF IsSome(member.left) THEN Nodes(Unwrap(member.left)) ELSE {})
         \cup (IF IsSome(member.right) THEN Nodes(Unwrap(member.right)) ELSE {})

Contains(outer, inner) ==
    \A i \in 1..3 : FLe(outer.min[i], inner.min[i]) /\ FLe(inner.max[i], outer.max[i])

WellFormed(box) == \A i \in 1..3 : FLe(box.min[i], box.max[i])

ShapeBox(i) == Unwrap(BoundingBox(shapes[i + 1], TimeInitial, TimeFinal))

\* the union of the boxes of the shapes at the given indices (a non-empty
\* sequence), taken left to right
RECURSIVE UnionOfBoxes(_)
UnionOfBoxes(indices) ==
    IF Len(indices) = 1 THEN ShapeBox(indices[1])
    ELSE SurroundingBox(UnionOfBoxes(SubSeq(indices, 1, Len(indices) - 1)),
                        ShapeBox(indices[Len(indices)]))

Built == phase \in {"built", "queried"}

\* C1: the BVH's answer to a query is absent exactly when the linear scan's
\* is, and when both hit they report the same shape and the same t.
C1_BVHEqualsLinearScan ==
    phase = "queried" =>
        /\ IsNone(bvh_hit) <=> IsNone(list_hit)
        /\ IsSome(bvh_hit) /\ IsSome(list_hit) =>
              /\ Unwrap(bvh_hit).index = Unwrap(list_hit).index
              /\ Unwrap(bvh_hit).hit.t = Unwrap(list_hit).hit.t

\* C2: the built tree has exactly n leaves, the leaf indices are exactly
\* 0..n-1, each in one leaf, and every Node has a left and a right child.
C2_LeavesAndBinary ==
    Built =>
        LET leaves == LeafIndices(Unwrap(root))
        IN /\ Len(leaves) = Len(scene)
           /\ {leaves[i] : i \in 1..Len(leaves)} = 0..(Len(scene) - 1)
           /\ \A i, j \in 1..Len(leaves) : i # j => leaves[i] # leaves[j]
           /\ StrictlyBinary(Unwrap(root))

C2_Witness ==
    /\ phase = "built"
    /\ Len(scene) = 3
    /\ Unwrap(root).kind = "Node"
    /\ Unwrap(Unwrap(root).right).kind = "Node"

\* C3: with the shape list in its final order, every Node's bounds is the
\* union of the boxes over [time_initial, time_final] of the shapes at the
\* leaves below it, and contains each of those boxes.
C3_NodeBoundsAreUnion ==
    Built =>
        \A node \in Nodes(Unwrap(root)) :
            LET below == LeafIndices(node)
            IN /\ node.bounds = UnionOfBoxes(below)
               /\ \A i \in 1..Len(below) : Contains(node.bounds, ShapeBox(below[i]))

\* a tree over three shapes whose first sort and whose sort of the right
\* half were on different keys, so that the right half was reordered
C3_Witness ==
    /\ phase = "built"
    /\ Len(scene) = 3
    /\ shapes # scene
    /\ Unwrap(root).kind = "Node"
    /\ Unwrap(Unwrap(root).right).kind = "Node"

\* C4: every box a shape reports and every box surrounding_box makes of
\* them has min <= max on each axis.
C4_BoxesWellFormed ==
    Built =>
        /\ \A i \in 1..Len(shapes) : WellFormed(ShapeBox(i - 1))
        /\ \A node \in Nodes(Unwrap(root)) : WellFormed(node.bounds)

(***************************************************************************)
(* Properties of color                                                     *)
(***************************************************************************)
Evaluating == phase \in {"color", "returned"}

\* the caller that waits at the top of the stack
Caller == Unwrap(evaluation).stack[Len(Unwrap(evaluation).stack)]

C7_HitValue ==
    [][/\ Running /\ RunningCall.max_depth >= 1 /\ Exact /\ IsSome(RunningHit)
          /\ IsSome(RunningScatter.response) =>
             /\ Unwrap(evaluation').call =
                   Some([ray |-> Unwrap(RunningScatter.response).scattered,
                         max_depth |-> RunningCall.max_depth - 1])
             /\ Unwrap(evaluation').stack =
                   Append(Unwrap(evaluation).stack,
                          [emitted |-> Emit(Unwrap(RunningHit).material,
                                            Unwrap(RunningHit).p),
                           attenuation |-> Unwrap(RunningScatter.response).attenuation])
       /\ Running /\ RunningCall.max_depth >= 1 /\ Exact /\ IsSome(RunningHit)
          /\ IsNone(RunningScatter.response) =>
             /\ Unwrap(evaluation').ret =
                   Some(Emit(Unwrap(RunningHit).material, Unwrap(RunningHit).p))
             /\ Unwrap(evaluation').stack = Unwrap(evaluation).stack
             /\ IsNone(Unwrap(evaluation').call)
       /\ phase = "color" /\ ~Running =>
             Unwrap(evaluation').ret =
                Some(VAdd(Caller.emitted,
                          VMul(Caller.attenuation, Unwrap(Unwrap(evaluation).ret))))
      ]_vars

\* color has returned the background, through one Lambertian bounce, as its
\* value
C7_Witness ==
    /\ phase = "returned"
    /\ first_depth >= 1
    /\ background = Sky
    /\ LET found == ColorHit(use_bounding_volume, shapes, Unwrap(root),
                             Unwrap(first_ray))
       IN IsSome(found) /\ Unwrap(found).material.kind = "Lambertian"
    /\ Unwrap(evaluation).queries = 2
    /\ Unwrap(evaluation).ret = Some(Sky)

\* the calls of color that have not returned
Chain == Len(Unwrap(evaluation).stack) + (IF Running THEN 1 ELSE 0)

\* what bounds the steps an evaluation has left: it falls with every step
Variant ==
    IF Running THEN 2 * RunningCall.max_depth + 2 + Len(Unwrap(evaluation).stack)
    ELSE Len(Unwrap(evaluation).stack)

\* C8: every call of color returns: each recursive call runs with the
\* max_depth of its caller less one, max_depth never goes below 0, at most
\* max_depth + 1 calls are in progress at once, and a measure that is never
\* negative falls with every step of the evaluation.
C8_ColorTerminates ==
    /\ [](Evaluating =>
            /\ Chain <= first_depth + 1
            /\ Variant >= 0
            /\ Running =>
                  /\ RunningCall.max_depth \in 0..(U8Values - 1)
                  /\ RunningCall.max_depth =
                        first_depth - Len(Unwrap(evaluation).stack))
    /\ [][Variant' < Variant]_vars

\* a chain of RenderDepth + 1 calls: the innermost runs with max_depth = 0
C8_Witness ==
    /\ Running
    /\ first_depth = RenderDepth
    /\ Len(Unwrap(evaluation).stack) = RenderDepth
    /\ RunningCall.max_depth = 0

(***************************************************************************)
\* C23: for max_depth >= 1, a ray for which the scene query over
\* [0.001, +infinity) returns absence makes color return exactly the
\* configured background colour, whatever max_depth and the random
\* generator are, and without drawing any random number.
C23_MissIsBackground ==
    [][Running /\ RunningCall.max_depth >= 1 /\ IsNone(RunningHit) =>
          /\ Unwrap(evaluation').ret = Some(background)
          /\ IsNone(Unwrap(evaluation').call)
          /\ Unwrap(evaluation').stack = Unwrap(evaluation).stack
          /\ Unwrap(evaluation').rng = Unwrap(evaluation).rng]_vars

\* color has returned the background for a first ray that leaves the scene,
\* after one query and with the generator where it was
C23_Witness ==
    /\ phase = "returned"
    /\ first_depth >= 1
    /\ background = Sky
    /\ IsNone(ColorHit(use_bounding_volume, shapes, Unwrap(root), Unwrap(first_ray)))
    /\ Unwrap(evaluation).ret = Some(Sky)
    /\ Unwrap(evaluation).queries = 1
    /\ Unwrap(evaluation).rng.pos = 0

(***************************************************************************)
(* Properties of render_world                                              *)
(***************************************************************************)
\* C5: two runs of render_world over the same scene, camera, image size and
\* sample count return the same bytes.
C5_RunsAgree == phase = "done" /\ IsSome(earlier) => buffer = earlier

\* the three bytes the buffer holds for index idx
BytesOf(idx) == SubSeq(Unwrap(buffer), 3 * idx + 1, 3 * idx + 3)

\* C9: the buffer render_world returns holds 3 * screen_width * screen_height
\* bytes; bytes 3k, 3k+1 and 3k+2 are the R, G and B of the pixel of index k,
\* which render worked out for column k mod screen_width and for
\* j = screen_height - 1 - (k div screen_width).  This holds in parallel and in
\* sequential mode, in whatever order the pixels were rendered.
C9_BufferLayout ==
    phase = "done" =>
        /\ Len(Unwrap(buffer)) = 3 * screen_width * screen_height
        /\ \A k \in Indices :
              /\ Unwrap(pixels[k]).i = k % screen_width
              /\ Unwrap(pixels[k]).j = screen_height - 1 - (k \div screen_width)
              /\ BytesOf(k) = << AsU8(Unwrap(pixels[k]).pixel[1]),
                                 AsU8(Unwrap(pixels[k]).pixel[2]),
                                 AsU8(Unwrap(pixels[k]).pixel[3]) >>

\* a parallel render of a 2 x 2 image has returned, with pixels that differ
C9_Witness ==
    /\ phase = "done"
    /\ render_parallel
    /\ screen_width = 2 /\ screen_height = 2
    /\ BytesOf(0) # BytesOf(1)
    /\ \E k \in Indices : Unwrap(pixels[k]).j # k \div screen_width

\* C10: a step of a render worker changes neither the shape list, nor the
\* tree, nor the camera, nor the background; it writes the worker's own
\* generator and at most one pixel, which no one had written.
C10_WorkersShareNothing ==
    [][\A w \in Workers :
          (WorkerInit(w) \/ \E idx \in Indices : pixels'[idx] # pixels[idx]
                                                   /\ RenderPixel(w, idx)) =>
             /\ UNCHANGED <<shapes, root, camera, background>>
             /\ \A other \in Workers \ {w} : rngs'[other] = rngs[other]
             /\ \A k, l \in Indices :
                   pixels'[k] # pixels[k] /\ pixels'[l] # pixels[l] => k = l
             /\ \A k \in Indices : pixels'[k] # pixels[k] => IsNone(pixels[k])]_vars

\* two workers have drawn from their generators and pixels have been written
C10_Witness ==
    /\ phase = "rendering"
    /\ render_parallel
    /\ IsSome(rngs[1]) /\ IsSome(rngs[2])
    /\ Unwrap(rngs[1]).pos # 0 /\ Unwrap(rngs[2]).pos # 0
    /\ \E k, l \in Indices : k # l /\ IsSome(pixels[k]) /\ IsSome(pixels[l])

\* worker w can go on with index idx whatever the other workers have done
Unhindered(w, idx) ==
    IF IsNone(rngs[w]) THEN ENABLED WorkerInit(w) ELSE RenderPixelEnabled(w, idx)

\* C24: a call of render_world returns; each index of 0..width*height - 1 is
\* rendered once, what render returned for it never being written again, with
\* antialias_iterations calls of color; the buffer is there only when every
\* index has been rendered; and in parallel mode a worker can take any index
\* that is left without waiting for another worker.
C24_RenderFinishes ==
    /\ <>(phase = "done")
    /\ [](DOMAIN pixels = 0..(screen_width * screen_height - 1))
    /\ [][\A idx \in Indices : IsSome(pixels[idx]) => pixels'[idx] = pixels[idx]]_vars
    /\ [](\A idx \in Indices :
             IsSome(pixels[idx]) => Unwrap(pixels[idx]).calls = antialias_iterations)
    /\ [](IsSome(buffer) => \A idx \in Indices : IsSome(pixels[idx]))
    /\ [](phase = "rendering" /\ render_parallel =>
             \A w \in Workers, idx \in Indices :
                IsNone(pixels[idx]) => Unhindered(w, idx))

\* a parallel render of a 2 x 2 image with two samples a pixel has returned,
\* both workers having rendered pixels
C24_Witness ==
    /\ phase = "done"
    /\ IsSome(buffer)
    /\ render_parallel
    /\ antialias_iterations = 2
    /\ screen_width = 2 /\ screen_height = 2
    /\ \A w \in Workers : IsSome(rngs[w])
    /\ Unwrap(rngs[1]).stream # Unwrap(rngs[2]).stream
    /\ \A idx \in Indices : Unwrap(pixels[idx]).calls = 2

(***************************************************************************)
(* Properties of the geometry                                              *)
(***************************************************************************)
ReturnedFrom(name) == phase = "returned" /\ callee = name

\* the parameters t at which a ray may meet a sphere of the model
MaxParameter == 8
Parameters == {Fin(k, 4) : k \in (-4 * MaxParameter)..(4 * MaxParameter)}

\* the centre and the radius of the sphere a call is about
CentreOf(call) ==
    IF call.self.kind = "MovingSphere" THEN MovingCenter(call.self, call.ray.time)
    ELSE call.self.center
RadiusOf(call) ==
    IF call.self.kind = "MovingSphere" THEN call.self.object.radius ELSE call.self.radius

\* the square of the distance of a point from the centre, less radius^2
Clearance(call, p) ==
    FSub(SquareLength(VSub(p, CentreOf(call))), FMul(RadiusOf(call), RadiusOf(call)))

\* the parameters at which the ray of a call is on the sphere
RootsOf(call) == {t \in Parameters : Clearance(call, PointAt(call.ray, t)) = Zero}
Within(call, t) == FLt(call.t_min, t) /\ FLt(t, call.t_max)
Smaller(roots) == CHOOSE t \in roots : \A other \in roots : FLe(t, other)
Larger(roots) == CHOOSE t \in roots : \A other \in roots : FLe(other, t)

\* the ray of a call starts outside (inside) the sphere; it is aimed at the
\* centre
StartsOutside(call) == FGt(Clearance(call, call.ray.origin), Zero)
StartsInside(call) == FLt(Clearance(call, call.ray.origin), Zero)
AimedAtCentre(call) ==
    \E t \in Parameters : FGt(t, Zero) /\ PointAt(call.ray, t) = CentreOf(call)

\* what the first sentence of C11 says of a call, of its roots and of what
\* it returned
RootChosen(call, roots, hit) ==
    /\ roots = {} => IsNone(hit)
    /\ roots # {} =>
          IF Within(call, Smaller(roots))
          THEN IsSome(hit) /\ Unwrap(hit).t = Smaller(roots)
          ELSE IF Within(call, Larger(roots))
          THEN IsSome(hit) /\ Unwrap(hit).t = Larger(roots)
          ELSE IsNone(hit)

\* what is returned is the root that the claim names for rays from outside
\* and from inside
IsRoot(hit, t) == IsSome(hit) /\ Unwrap(hit).t = t

\* C11 as stated: Sphere::hit is absent without a root; else it is the
\* smaller root if strictly inside (t_min, t_max), else the larger root if
\* that one is, else absent; and with 0 <= t_min a ray from outside aimed at
\* the centre returns the smaller positive root, a ray from inside the
\* larger root.
C11_SphereRootsAsStated ==
    ReturnedFrom("Sphere::hit") =>
        /\ RootChosen(Unwrap(arguments), RootsOf(Unwrap(arguments)), Unwrap(result))
        /\ FLe(Zero, Unwrap(arguments).t_min) /\ StartsOutside(Unwrap(arguments))
           /\ AimedAtCentre(Unwrap(arguments)) =>
              /\ FGt(Smaller(RootsOf(Unwrap(arguments))), Zero)
              /\ IsRoot(Unwrap(result), Smaller(RootsOf(Unwrap(arguments))))
        /\ FLe(Zero, Unwrap(arguments).t_min) /\ StartsInside(Unwrap(arguments)) =>
              IsRoot(Unwrap(result), Larger(RootsOf(Unwrap(arguments))))

\* C11, amended: the same, but a ray from outside aimed at the centre
\* returns the smaller positive root, and a ray from inside the larger root,
\* when that root lies strictly inside (t_min, t_max).
C11_SphereRoots ==
    ReturnedFrom("Sphere::hit") =>
        /\ RootChosen(Unwrap(arguments), RootsOf(Unwrap(arguments)), Unwrap(result))
        /\ FLe(Zero, Unwrap(arguments).t_min) /\ StartsOutside(Unwrap(arguments))
           /\ AimedAtCentre(Unwrap(arguments))
           /\ Within(Unwrap(arguments), Smaller(RootsOf(Unwrap(arguments)))) =>
              /\ FGt(Smaller(RootsOf(Unwrap(arguments))), Zero)
              /\ IsRoot(Unwrap(result), Smaller(RootsOf(Unwrap(arguments))))
        /\ FLe(Zero, Unwrap(arguments).t_min) /\ StartsInside(Unwrap(arguments))
           /\ Within(Unwrap(arguments), Larger(RootsOf(Unwrap(arguments)))) =>
              IsRoot(Unwrap(result), Larger(RootsOf(Unwrap(arguments))))

\* a ray from inside the moving sphere has returned its exit root, the
\* entry root lying behind its origin
C11_Witness ==
    /\ ReturnedFrom("Sphere::hit")
    /\ Unwrap(arguments).self.kind = "MovingSphere"
    /\ StartsInside(Unwrap(arguments))
    /\ FLt(Smaller(RootsOf(Unwrap(arguments))), Zero)
    /\ IsRoot(Unwrap(result), Larger(RootsOf(Unwrap(arguments))))

\* min <= max on every axis
WellFormedBox(box) == \A i \in 1..3 : FLe(box.min[i], box.max[i])

\* every point of inner is a point of outer
BoxContains(outer, inner) ==
    \A i \in 1..3 : FLe(outer.min[i], inner.min[i]) /\ FLe(inner.max[i], outer.max[i])

\* C12: for all boxes a, b, c with min <= max, surrounding_box(a, b)
\* contains a and contains b, surrounding_box(a, b) = surrounding_box(b, a),
\* and surrounding_box(surrounding_box(a, b), c) =
\* surrounding_box(a, surrounding_box(b, c)).
C12_SurroundingBoxAlgebra ==
    ReturnedFrom("AABB::surrounding_box")
    /\ WellFormedBox(Unwrap(arguments).a) /\ WellFormedBox(Unwrap(arguments).b)
    /\ WellFormedBox(Unwrap(arguments).c) =>
        /\ BoxContains(Unwrap(result).ab, Unwrap(arguments).a)
        /\ BoxContains(Unwrap(result).ab, Unwrap(arguments).b)
        /\ Unwrap(result).ab = Unwrap(result).ba
        /\ Unwrap(result).ab_c = Unwrap(result).a_bc

\* the surrounding box of two boxes that lie apart has been returned: it is
\* neither of them, and with a third box the two groupings name one box
\* that is none of the three
C12_Witness ==
    /\ ReturnedFrom("AABB::surrounding_box")
    /\ WellFormedBox(Unwrap(arguments).a) /\ WellFormedBox(Unwrap(arguments).b)
    /\ WellFormedBox(Unwrap(arguments).c)
    /\ ~BoxContains(Unwrap(arguments).a, Unwrap(arguments).b)
    /\ ~BoxContains(Unwrap(arguments).b, Unwrap(arguments).a)
    /\ Unwrap(result).ab \notin {Unwrap(arguments).a, Unwrap(arguments).b}
    /\ Unwrap(result).ab_c \notin {Unwrap(arguments).a, Unwrap(arguments).b,
                                   Unwrap(arguments).c, Unwrap(result).ab}

\* the centre of a box
BoxCentre(box) ==
    <<FDiv(FAdd(box.min[1], box.max[1]), Num(2)),
      FDiv(FAdd(box.min[2], box.max[2]), Num(2)),
      FDiv(FAdd(box.min[3], box.max[3]), Num(2))>>

\* the line of the ray passes through the centre of the box at a parameter
\* strictly inside (t_min, t_max)
ThroughCentre(call) ==
    \E t \in Parameters :
        /\ PointAt(call.ray, t) = BoxCentre(call.self)
        /\ FLt(call.t_min, t) /\ FLt(t, call.t_max)

\* the ray has a zero direction component on an axis where its origin lies
\* outside the slab of the box
ParallelOutside(call) ==
    \E i \in 1..3 :
        /\ call.ray.direction[i] = Zero
        /\ FLt(call.ray.origin[i], call.self.min[i]) \/ FGt(call.ray.origin[i], call.self.max[i])

\* C13: AABB::hit on a box with min < max on every axis returns true for
\* every ray whose line passes through the box centre at a parameter
\* strictly inside (t_min, t_max), and false for every ray that has a zero
\* direction component on an axis where its origin lies outside the box's
\* slab; with a zero direction component the test still returns its answer.
C13_SlabTest ==
    ReturnedFrom("AABB::hit") /\ (\A i \in 1..3 : FLt(Unwrap(arguments).self.min[i],
                                                      Unwrap(arguments).self.max[i])) =>
        /\ Unwrap(result) \in BOOLEAN
        /\ ThroughCentre(Unwrap(arguments)) => Unwrap(result) = TRUE
        /\ ParallelOutside(Unwrap(arguments)) => Unwrap(result) = FALSE

\* a ray that runs against the z axis, its other two direction components
\* zero, has been found to pass through the centre of the box
C13_Witness ==
    /\ ReturnedFrom("AABB::hit")
    /\ Unwrap(arguments).ray.direction = V(0, 0, -1)
    /\ ThroughCentre(Unwrap(arguments))
    /\ Unwrap(result) = TRUE

\* C14: for every Hit built by Hit::new from a ray and an outward normal,
\* the stored normal satisfies dot(ray.direction, normal) <= 0, the stored
\* normal is the outward normal or its negation, and front_facing is true
\* exactly when dot(ray.direction, outward_normal) < 0.
C14_NormalOpposesRay ==
    ReturnedFrom("Hit::new") =>
        /\ FLe(Dot(Unwrap(arguments).ray.direction, Unwrap(result).normal), Zero)
        /\ Unwrap(result).normal \in {Unwrap(arguments).outward_normal,
                                      VNeg(Unwrap(arguments).outward_normal)}
        /\ Unwrap(result).front_facing
             <=> FLt(Dot(Unwrap(arguments).ray.direction, Unwrap(arguments).outward_normal),
                     Zero)

\* a Hit has been built from a ray that leaves the surface: its normal is
\* the outward normal turned round
C14_Witness ==
    /\ ReturnedFrom("Hit::new")
    /\ FGt(Dot(Unwrap(arguments).ray.direction, Unwrap(arguments).outward_normal), Zero)
    /\ ~Unwrap(result).front_facing
    /\ Unwrap(result).normal = VNeg(Unwrap(arguments).outward_normal)
    /\ Unwrap(result).normal # Unwrap(arguments).outward_normal

\* C25: when the hit of a shape returns a Hit, AABB::hit on the bounding box
\* of the shape returns true for the same ray, t_min and t_max.
C25_BoxAcceptsWhatShapeAccepts ==
    ReturnedFrom("Shape::hit") =>
        (IsSome(Unwrap(result).hit) => Unwrap(result).bounds_hit)

\* the point lies outside the cube
OutsideCube(cube, point) ==
    \E i \in 1..3 : FLt(point[i], cube.min[i]) \/ FGt(point[i], cube.max[i])

\* the hit is the hit of a side, and no side is hit at a smaller t
NearestSide(hit, sides) ==
    /\ \E i \in 1..6 : IsSome(sides[i]) /\ Unwrap(sides[i]).t = hit.t
    /\ \A i \in 1..6 : IsSome(sides[i]) => FLe(hit.t, Unwrap(sides[i]).t)

\* C28: a Hit that Cube::hit returns for a ray whose origin is outside the
\* cube is front-facing, and it is the hit of the side met at the smallest t
\* in range.
C28_CubeHitFrontFacing ==
    ReturnedFrom("Cube::hit") /\ OutsideCube(Unwrap(arguments).self, Unwrap(arguments).ray.origin)
                              /\ IsSome(Unwrap(result).hit) =>
        /\ Unwrap(Unwrap(result).hit).front_facing
        /\ NearestSide(Unwrap(Unwrap(result).hit), Unwrap(result).sides)

\* C30: the hit of a rectangle is absent for every ray whose direction has no
\* component along the normal axis of the rectangle, and no Hit that a
\* rectangle returns has a t that is not a number.
C30_RectParallelAbsent ==
    ReturnedFrom("Shape::hit") /\ Unwrap(arguments).self.kind \in {"XyRect", "XzRect", "YzRect"} =>
        /\ FEq(At(Unwrap(arguments).ray.direction, NormalAxis(Unwrap(arguments).self.kind)), Zero)
              => IsNone(Unwrap(result).hit)
        /\ IsSome(Unwrap(result).hit) => ~IsNaN(Unwrap(Unwrap(result).hit).t)

(***************************************************************************)
(* Properties of the materials                                             *)
(***************************************************************************)
\* the response is a ray along reflected where reflected leaves the
\* surface, and absent where it does not
ReflectedOrAbsent(response, reflected, normal) ==
    IF FGt(Dot(reflected, normal), Zero)
    THEN IsSome(response) /\ Unwrap(response).scattered.direction = reflected
    ELSE IsNone(response)

\* C15: Metal::scatter with fuzz = 0 yields an outgoing direction equal to
\* reflect(unit(incoming direction), normal) for every state of the random
\* generator, so the outgoing direction and the present/absent outcome
\* depend on the incoming direction and the normal alone, whatever random
\* values are drawn.
C15_MirrorIsDeterministic ==
    ReturnedFrom("Material::scatter") /\ Unwrap(arguments).self.kind = "Metal"
    /\ Unwrap(arguments).self.fuzziness = Zero =>
        ReflectedOrAbsent(Unwrap(result).response,
                          Reflect(Unit(Unwrap(arguments).ray.direction),
                                  Unwrap(arguments).hit.normal),
                          Unwrap(arguments).hit.normal)

\* a metal of fuzz 0 has scattered a ray that met it askew, the generator
\* having drawn a point other than the origin
C15_Witness ==
    /\ ReturnedFrom("Material::scatter")
    /\ Unwrap(arguments).self.kind = "Metal"
    /\ Unwrap(arguments).self.fuzziness = Zero
    /\ Unwrap(arguments).ray.direction = V(4, 0, -3)
    /\ RandomInUnitSphere(Unwrap(arguments).rng).p # V(0, 0, 0)
    /\ IsSome(Unwrap(result).response)
    /\ Unwrap(result).rng # Unwrap(arguments).rng

\* C16: every Metal value constructed through Metal::new or Material::metal,
\* for any fuzziness argument, stores a fuzz value f with 0 <= f <= 1.
C16_FuzzWithinUnit ==
    ReturnedFrom("Metal::new") \/ ReturnedFrom("Material::metal") =>
        /\ FLe(Zero, Unwrap(result).fuzziness)
        /\ FLe(Unwrap(result).fuzziness, One)

\* the square of the sine of the angle between the ray and the normal
SineSquared(cosine) == FSub(One, FMul(cosine, cosine))
IncidenceSineSquared(call) == SineSquared(Dot(Unit(call.ray.direction), call.hit.normal))

\* index * sin(theta) > 1, for an index above 0
BeyondCritical(index, call) ==
    FGt(FMul(FMul(index, index), IncidenceSineSquared(call)), One)

\* the ratio of the refractive indices on the two sides of the surface, in
\* the order the ray crosses them
RatioAcross(call) ==
    IF call.hit.front_facing THEN FDiv(One, call.self.ref_idx) ELSE call.self.ref_idx

\* the outgoing direction is reflect(unit direction, normal)
Reflected(call, response) ==
    /\ IsSome(response)
    /\ Unwrap(response).scattered.direction
         = Reflect(Unit(call.ray.direction), call.hit.normal)

\* C17, as stated: Dielectric::scatter reflects whenever ior * sin(theta) > 1,
\* where ior is the material's refractive index and theta the incidence
\* angle, for front-facing and back-facing hits alike and for every random
\* draw.
C17_ReflectsBeyondIndexAsStated ==
    ReturnedFrom("Material::scatter") /\ Unwrap(arguments).self.kind = "Dielectric"
    /\ BeyondCritical(Unwrap(arguments).self.ref_idx, Unwrap(arguments)) =>
        Reflected(Unwrap(arguments), Unwrap(result).response)

\* C17, amended: Dielectric::scatter reflects whenever ratio * sin(theta) > 1,
\* where ratio is the material's refractive index for a back-facing hit and
\* its reciprocal for a front-facing hit, for every random draw.
C17_TotalInternalReflection ==
    ReturnedFrom("Material::scatter") /\ Unwrap(arguments).self.kind = "Dielectric"
    /\ BeyondCritical(RatioAcross(Unwrap(arguments)), Unwrap(arguments)) =>
        Reflected(Unwrap(arguments), Unwrap(result).response)

\* a ray that meets the surface from inside beyond the critical angle has
\* been reflected, though the value the generator holds is above what
\* schlick gives
C17_Witness ==
    /\ ReturnedFrom("Material::scatter")
    /\ Unwrap(arguments).self.kind = "Dielectric"
    /\ ~Unwrap(arguments).hit.front_facing
    /\ BeyondCritical(RatioAcross(Unwrap(arguments)), Unwrap(arguments))
    /\ RandomDouble(Unwrap(arguments).rng) = Fin(7, 8)
    /\ Reflected(Unwrap(arguments), Unwrap(result).response)

\* C18: emit returns the zero colour for every Lambertian, Metal and
\* Dielectric material at every (u, v, point), and for DiffuseLight returns
\* exactly its texture's value at (u, v, point); DiffuseLight::scatter is
\* absent for every ray and hit.
C18_OnlyLightsEmit ==
    /\ ReturnedFrom("Material::emit") =>
          Unwrap(result) = IF Unwrap(arguments).self.kind = "DiffuseLight"
                           THEN TextureValue(Unwrap(arguments).self.texture,
                                             Unwrap(arguments).p)
                           ELSE <<Zero, Zero, Zero>>
    /\ ReturnedFrom("Material::scatter") /\ Unwrap(arguments).self.kind = "DiffuseLight" =>
          IsNone(Unwrap(result).response)

\* a light with a checker texture has emitted the colour of the odd fields
C18_Witness ==
    /\ ReturnedFrom("Material::emit")
    /\ Unwrap(arguments).self = DiffuseLight(Chequered)
    /\ Unwrap(arguments).p # V(0, 0, 0)
    /\ Unwrap(result) = <<One, Zero, Zero>>

(***************************************************************************)
(* Properties of the build                                                 *)
(***************************************************************************)
\* some shape of the list reports no bounding box
Boxless(list) ==
    \E i \in 1..Len(list) : IsNone(BoundingBox(list[i], TimeInitial, TimeFinal))

\* C19: if any shape in the scene reports no bounding box,
\* BoundingVolumeHierarchy::new aborts and returns no BVH; conversely, when
\* every shape reports a box the build never aborts.
C19_AbortsExactlyWithoutBox ==
    phase \in {"built", "queried", "aborted"} =>
        /\ phase = "aborted" <=> Boxless(scene)
        /\ phase = "aborted" => IsNone(root)

\* C26: BoundingVolumeHierarchy::new returns a tree for every scene, the
\* empty scene included: no call of it ends without a root.
C26_BuildReturnsTree ==
    phase # "config" => phase # "aborted" /\ IsSome(root)

\* how often x stands in list
Occurrences(list, x) == Cardinality({i \in 1..Len(list) : list[i] = x})

\* C27: the shape list of the BVH that was built holds every shape of the
\* scene as often as the scene does, unaltered, and nothing else.
C27_BuildPermutes ==
    phase \in {"built", "queried"} =>
        /\ Len(shapes) = Len(scene)
        /\ \A i \in 1..Len(scene) :
              Occurrences(shapes, scene[i]) = Occurrences(scene, scene[i])
        /\ \A i \in 1..Len(shapes) :
              Occurrences(scene, shapes[i]) = Occurrences(shapes, shapes[i])

\* a scene of three shapes was built, and no shape kept its place
C27_Witness ==
    /\ phase = "built"
    /\ Len(scene) = 3
    /\ \A i \in 1..3 : shapes[i] # scene[i]

\* the number of members of a tree
RECURSIVE MemberCount(_)
MemberCount(tree) ==
    IF tree.kind = "Leaf" THEN 1
    ELSE 1 + (IF IsSome(tree.left) THEN MemberCount(Unwrap(tree.left)) ELSE 0)
           + (IF IsSome(tree.right) THEN MemberCount(Unwrap(tree.right)) ELSE 0)

\* the depth of a member below a node, from its depths below the children
\* (-1 where it is not there)
DepthBelow(in_left, in_right) ==
    IF in_left >= 0 THEN in_left + 1 ELSE IF in_right >= 0 THEN in_right + 1 ELSE -1

\* the depth of member in tree, -1 if it is not in the tree
RECURSIVE DepthIn(_, _)
DepthIn(tree, member) ==
    IF tree = member THEN 0
    ELSE IF tree.kind = "Leaf" THEN -1
    ELSE DepthBelow(IF IsSome(tree.left) THEN DepthIn(Unwrap(tree.left), member) ELSE -1,
                    IF IsSome(tree.right) THEN DepthIn(Unwrap(tree.right), member) ELSE -1)

\* C29: level_order returns every member of the tree once, the root first,
\* and no member before a member of smaller depth.
C29_LevelOrderByDepth ==
    ReturnedFrom("BVHMember::level_order") =>
        /\ Len(Unwrap(result)) = MemberCount(Unwrap(arguments).self)
        /\ Unwrap(result)[1] = Unwrap(arguments).self
        /\ \A i, j \in 1..Len(Unwrap(result)) :
              /\ DepthIn(Unwrap(arguments).self, Unwrap(result)[i]) >= 0
              /\ i # j => Unwrap(result)[i] # Unwrap(result)[j]
              /\ i < j => DepthIn(Unwrap(arguments).self, Unwrap(result)[i])
                              <= DepthIn(Unwrap(arguments).self, Unwrap(result)[j])

\* C20: exchanging the left and right child of a 2-shape pair node never
\* changes the result of a nearest-hit query: both assignments return the
\* same shape and the same t, or both return absence, including when the
\* two shapes are hit at equal t.
C20_ExchangeUnobservable ==
    ReturnedFrom("BVHMember::indexed_hit") =>
        /\ IsNone(Unwrap(result).self) <=> IsNone(Unwrap(result).exchanged)
        /\ IsSome(Unwrap(result).self) /\ IsSome(Unwrap(result).exchanged) =>
              /\ Unwrap(Unwrap(result).self).index = Unwrap(Unwrap(result).exchanged).index
              /\ Unwrap(Unwrap(result).self).hit.t = Unwrap(Unwrap(result).exchanged).hit.t

\* the sphere of the given radius about center lies entirely inside box
SphereInside(box, center, radius) ==
    \A i \in 1..3 :
        /\ FLe(box.min[i], FSub(center[i], FAbs(radius)))
        /\ FLe(FAdd(center[i], FAbs(radius)), box.max[i])

\* C21: for a MovingSphere with time_start < time_end, center(time_start) is
\* the initial centre, center(time_end) is the final centre, and for every
\* query interval [t0, t1] and every ray time t with t0 <= t <= t1 the
\* sphere placed at center(t) lies entirely inside bounding_box(t0, t1),
\* which is the union of the boxes at center(t0) and center(t1).
C21_MovingSphereInsideBox ==
    ReturnedFrom("Moving<Sphere>::bounding_box")
    /\ FLt(Unwrap(arguments).self.time_start, Unwrap(arguments).self.time_end) =>
        /\ Unwrap(result).at_start = Unwrap(arguments).self.object.center
        /\ Unwrap(result).at_end = Unwrap(arguments).self.center_final
        /\ SphereInside(Unwrap(result).bounding_box, Unwrap(result).center,
                        Unwrap(arguments).self.object.radius)
        /\ Unwrap(result).bounding_box
             = SurroundingBox(SphereBox(MovingCenter(Unwrap(arguments).self,
                                                     Unwrap(arguments).time_start),
                                        Unwrap(arguments).self.object.radius),
                              SphereBox(MovingCenter(Unwrap(arguments).self,
                                                     Unwrap(arguments).time_end),
                                        Unwrap(arguments).self.object.radius))

\* the direction a metal scatters along: the reflection, pushed by the
\* point the generator draws
MetalDirection(call) ==
    VAdd(Reflect(Unit(call.ray.direction), call.hit.normal),
         VScale(call.self.fuzziness, RandomInUnitSphere(call.rng).p))

\* the two cases in which scatter is to be absent
AbsentCase(call) ==
    \/ call.self.kind = "DiffuseLight"
    \/ /\ call.self.kind = "Metal"
       /\ FLe(Dot(MetalDirection(call), call.hit.normal), Zero)

=============================================================================
